---- MODULE Spec2Model ----
(***************************************************************************)
(* State-machine model of matchms/Pipeline.py: workflow creation and       *)
(* loading, Pipeline construction, and one run of the pipeline (import,    *)
(* processing, score computation and masking).                             *)
(*                                                                         *)
(* Two specifications are defined over the same variables:                 *)
(*   Spec          the Pipeline object: __init__ and run;                  *)
(*   SpecWorkflow  the module-level workflow functions (create_workflow,   *)
(*                 load_in_workflow_from_yaml_file) and a caller that      *)
(*                 mutates the lists of the workflow it holds.             *)
(***************************************************************************)
EXTENDS Integers, Sequences, FiniteSets, TLC

(***************************************************************************)
(* Bounds of the model.                                                    *)
(***************************************************************************)
\* longest score_computations list drawn freely from the entries
MaxComp == 3
\* number of run() calls on the one Pipeline object
MaxRuns == 1
\* longest filter list a caller builds by appending
MaxFilters == 3
\* number of run() calls where the file arguments are varied
MaxImports == 2
\* number of assignments to the properties of the one Pipeline object
MaxSets == 2

(***************************************************************************)
(* Python values.  A head of a score-computation entry is a string, a      *)
(* callable or some other object; its text is kept in val.                 *)
(***************************************************************************)
Str(s)      == [kind |-> "str", val |-> s]
Callable(s) == [kind |-> "callable", val |-> s]
Other(s)    == [kind |-> "other", val |-> s]

\* an option that the mapping does not hold
AbsentNum  == 0 - 1
AbsentName == ""

\* computation[1] when the entry has one; has = FALSE is len(computation) == 1
NoOpts == [has |-> FALSE, name |-> AbsentName, low |-> AbsentNum,
           high |-> AbsentNum, tolerance |-> AbsentNum]
Opts(n, lo, hi, tol) == [has |-> TRUE, name |-> n, low |-> lo, high |-> hi,
                         tolerance |-> tol]

\* an entry of score_computations: a list [head, options?] or a bare head
Entry(isList, h, o) == [isList |-> isList, head |-> h, opts |-> o]

(***************************************************************************)
(* The registry of line 16.                                                *)
(***************************************************************************)
\* the callables of matchms.similarity, by their names
mssimilarity_dict == {"CosineGreedy", "PrecursorMzMatch"}

\* str.lower on the names the model uses
str_lower(s) ==
    CASE s = "CosineGreedy"     -> "cosinegreedy"
      [] s = "PrecursorMzMatch" -> "precursormzmatch"
      [] s = "Spec2Vec"         -> "spec2vec"
      [] s = "NoSuchScore"      -> "nosuchscore"
      [] OTHER                  -> s

_masking_functions == {"filter_by_range"}

\* the keys of _score_functions; _score_functions[k] is ScoreClass(k)
_score_functions == {str_lower(key) : key \in mssimilarity_dict}

ScoreClass(k) == CHOOSE key \in mssimilarity_dict : str_lower(key) = k

(***************************************************************************)
(* check_score_computation                                                 *)
(***************************************************************************)
NoError == [type |-> "", arg |-> ""]
Error(t, a) == [type |-> t, arg |-> a]

\* the three `continue` tests of lines 96-101 on computation[0]
HeadAccepted(h) ==
    \/ h.kind = "str" /\ h.val \in _masking_functions
    \/ h.kind = "str" /\ h.val \in _score_functions
    \/ h.kind = "callable"

\* the variant that lower-cases the name before the registry lookup
HeadAcceptedLowered(h) ==
    \/ h.kind = "str" /\ h.val \in _masking_functions
    \/ h.kind = "str" /\ str_lower(h.val) \in _score_functions
    \/ h.kind = "callable"

\* lines 94-95 make every entry a list, so the head is computation[0] either way
HeadOf(computation) == computation.head

\* NoError, or the ValueError of the first entry that is not accepted
check_score_computation(score_computations) ==
    LET bad == {k \in 1..Len(score_computations) :
                   ~HeadAccepted(HeadOf(score_computations[k]))}
    IN IF bad = {} THEN NoError
       ELSE LET k == CHOOSE j \in bad : \A m \in bad : j <= m
            IN Error("ValueError", HeadOf(score_computations[k]).val)

(***************************************************************************)
(* Spectra, files and filters.  A spectrum is represented by its           *)
(* precursor m/z.                                                          *)
(***************************************************************************)
ExistingFiles == {"a.msp", "b.msp"}

\* load_spectra(filename)
load_spectra(f) ==
    CASE f = "a.msp" -> <<100, 101, 1200>>
      [] f = "b.msp" -> <<100, 105>>
      [] OTHER       -> <<>>

\* a file argument of run: a str, a list of str, or None
FileStr(f)    == [kind |-> "str", files |-> <<f>>]
FileList(fs)  == [kind |-> "list", files |-> fs]
FileNone      == [kind |-> "None", files |-> <<>>]

\* a list of spectra with the identity of the list object
NoCollection == [obj |-> "None", items |-> <<>>]
Collection(o, items) == [obj |-> o, items |-> items]

\* a filter step of a workflow: a bare name, [name] or [name, {max_mz: m}]
Step(shape, name, m) == [shape |-> shape, name |-> name, max_mz |-> m]

DefaultMaxMz == 1000

\* one filter on one spectrum: TRUE when the spectrum survives
FilterKeeps(step, spectrum) ==
    IF step.name = "require_precursor_below_mz"
    THEN spectrum <= (IF step.max_mz = AbsentNum THEN DefaultMaxMz ELSE step.max_mz)
    ELSE TRUE

RECURSIVE SelectSeqBy(_, _)
SelectSeqBy(s, steps) ==
    IF s = <<>> THEN <<>>
    ELSE LET rest == SelectSeqBy(Tail(s), steps)
         IN IF \A k \in 1..Len(steps) : FilterKeeps(steps[k], Head(s))
            THEN <<Head(s)>> \o rest ELSE rest

\* SpectrumProcessor.process_spectrums: the spectra no filter turned into None
process_spectrums(steps, spectrums) == SelectSeqBy(spectrums, steps)

\* SpectrumProcessor(predefined_workflow).processing_steps
PresetSteps(predefined_workflow) ==
    CASE predefined_workflow = "basic" ->
             <<Step("bare", "make_charge_int", AbsentNum)>>
      [] predefined_workflow = "default" ->
             <<Step("bare", "make_charge_int", AbsentNum),
               Step("bare", "add_retention_time", AbsentNum)>>
      [] OTHER -> <<>>

\* faulty variant: every step is passed on as it was given
UnwrapNothing(step) == step

\* lines 47-48: a one-element list or tuple is replaced by its element
Unwrap(step) == IF step.shape = "list1" THEN [step EXCEPT !.shape = "bare"] ELSE step

RECURSIVE AddFilters(_, _)
AddFilters(steps, additional_filters) ==
    IF additional_filters = <<>> THEN steps
    ELSE AddFilters(Append(steps, Unwrap(Head(additional_filters))),
                    Tail(additional_filters))

\* the processing_steps of the processor initialize_spectrum_processor returns
initialize_spectrum_processor(predefined_workflow, additional_filters) ==
    AddFilters(PresetSteps(predefined_workflow), additional_filters)

(***************************************************************************)
(* Similarity measures and the score matrix.                               *)
(***************************************************************************)
Abs(x) == IF x < 0 THEN 0 - x ELSE x

Measure(class, tol) == [class |-> class, tolerance |-> tol]

\* the score of one (reference, query) pair
PairScore(measure, r, q) ==
    CASE measure.class = "PrecursorMzMatch" ->
             IF Abs(r - q) <= (IF measure.tolerance = AbsentNum THEN 0
                               ELSE measure.tolerance)
             THEN 1 ELSE 0
      [] measure.class = "CosineGreedy" ->
             IF r = q THEN 2 ELSE IF Abs(r - q) <= 5 THEN 1 ELSE 0
      [] OTHER -> 1 + ((r + q) % 2)

\* the column a measure's scores are stored under
ColumnName(measure) == measure.class

Grid(references, queries) == (1..Len(references)) \X (1..Len(queries))

\* self.scores: None, or coordinates, score_names and one column per name
NoScores == [some |-> FALSE, coords |-> {}, score_names |-> <<>>, data |-> <<>>]

ColumnIndex(scores, name) ==
    CHOOSE k \in 1..Len(scores.score_names) : scores.score_names[k] = name

\* calculate_scores(references, queries, similarity_measure, array_type="sparse")
calculate_scores(references, queries, measure) ==
    LET all == [c \in Grid(references, queries) |->
                   PairScore(measure, references[c[1]], queries[c[2]])]
        kept == {c \in DOMAIN all : all[c] # 0}
    IN [some |-> TRUE, coords |-> kept, score_names |-> <<ColumnName(measure)>>,
        data |-> <<[c \in kept |-> all[c]]>>]

\* similarity_measure.sparse_array(references, queries, idx_row, idx_col)
sparse_array(references, queries, idx, measure) ==
    [c \in idx |-> PairScore(measure, references[c[1]], queries[c[2]])]

\* scores.scores.add_sparse_data(row, col, new_scores, name)
add_sparse_data(scores, new_scores, name) ==
    IF \E k \in 1..Len(scores.score_names) : scores.score_names[k] = name
    THEN [scores EXCEPT !.data[ColumnIndex(scores, name)] = new_scores]
    ELSE [scores EXCEPT !.score_names = Append(@, name),
                        !.data = Append(@, new_scores)]

InRange(v, low, high) ==
    /\ (low = AbsentNum \/ low <= v)
    /\ (high = AbsentNum \/ v <= high)

Restrict(f, S) == [c \in (DOMAIN f) \cap S |-> f[c]]

\* scores.filter_by_range(name, low, high) on a matrix that has the column
filter_by_range(scores, name, low, high) ==
    LET col  == scores.data[ColumnIndex(scores, name)]
        kept == {c \in scores.coords : c \in DOMAIN col /\ InRange(col[c], low, high)}
    IN [scores EXCEPT !.coords = kept,
                      !.data = [k \in DOMAIN scores.data |->
                                   Restrict(scores.data[k], kept)]]

(***************************************************************************)
(* Workflows.                                                              *)
(***************************************************************************)
expected_keys == {"query_filters", "reference_filters", "score_computations"}

\* a workflow as Pipeline receives it: the type of the mapping, its keys and
\* the values under the three keys the code reads
\* refernece_filters is the value under the key of that name, which only the
\* setter of line 402 writes
Workflow(type, keys, qf, rf, sc) ==
    [type |-> type, keys |-> keys, query_filters |-> qf,
     reference_filters |-> rf, score_computations |-> sc,
     refernece_filters |-> <<>>]

NoWorkflow == Workflow("None", {}, <<>>, <<>>, <<>>)

\* the entries the model draws score_computations from
PrecursorEntry == Entry(TRUE, Str("precursormzmatch"),
                        Opts(AbsentName, AbsentNum, AbsentNum, 1))
CosineEntry    == Entry(FALSE, Str("cosinegreedy"), NoOpts)
Spec2VecEntry  == Entry(TRUE, Callable("Spec2Vec"), NoOpts)
MaskBare       == Entry(TRUE, Str("filter_by_range"), NoOpts)
MaskLow        == Entry(TRUE, Str("filter_by_range"),
                        Opts(AbsentName, 2, AbsentNum, AbsentNum))
MaskNamed      == Entry(TRUE, Str("filter_by_range"),
                        Opts("CosineGreedy", 1, 1, AbsentNum))
MaskNamedLow   == Entry(TRUE, Str("filter_by_range"),
                        Opts("CosineGreedy", 2, AbsentNum, AbsentNum))
MixedCaseEntry == Entry(TRUE, Str("CosineGreedy"), NoOpts)
UnknownEntry   == Entry(TRUE, Str("nosuchscore"), NoOpts)
NumberEntry    == Entry(FALSE, Other("42"), NoOpts)

GoodEntries == {PrecursorEntry, CosineEntry, Spec2VecEntry, MaskBare, MaskLow,
                MaskNamed, MaskNamedLow}
BadEntries  == {MixedCaseEntry, UnknownEntry, NumberEntry}

SeqsUpTo(S, n) == UNION {[1..k -> S] : k \in 0..n}

MeasureEntries == {PrecursorEntry, CosineEntry, Spec2VecEntry}
MaskEntries    == {MaskBare, MaskLow, MaskNamed, MaskNamedLow}

\* every list of accepted entries up to MaxComp, the longer lists that compute
\* one measure twice and then mask, and lists with one entry that
\* check_score_computation may reject
ScoreComputationLists ==
    SeqsUpTo(GoodEntries, MaxComp) \cup
    {l \o <<a, b, a, m>> : l \in SeqsUpTo(GoodEntries, MaxComp - 3),
                           a \in MeasureEntries, b \in MeasureEntries,
                           m \in MaskEntries} \cup
    {Append(l, b) \o m : l \in SeqsUpTo(GoodEntries, 1), b \in BadEntries,
                         m \in SeqsUpTo(GoodEntries, 1)}

BelowMzStep == Step("list2", "require_precursor_below_mz", 1000)
ChargeStep  == Step("list1", "make_charge_int", AbsentNum)

WorkflowInputs ==
    {Workflow("OrderedDict", expected_keys, qf, <<ChargeStep>>, sc) :
        qf \in {<<>>, <<BelowMzStep>>}, sc \in ScoreComputationLists}
    \cup
    {Workflow("dict", expected_keys, <<>>, <<>>, <<PrecursorEntry>>),
     Workflow("OrderedDict", {"query_filters", "reference_filters"},
              <<>>, <<>>, <<>>),
     Workflow("OrderedDict", expected_keys \cup {"refernece_filters"},
              <<>>, <<>>, <<PrecursorEntry>>)}

\* self.score_computations: workflow.get("score_computations")
score_computations_of(w) ==
    IF "score_computations" \in w.keys THEN w.score_computations ELSE <<>>

\* Pipeline.check_workflow: the first failing assertion or check
check_workflow(w) ==
    IF w.type # "OrderedDict" THEN Error("AssertionError", "type")
    ELSE IF w.keys # expected_keys THEN Error("AssertionError", "keys")
    ELSE check_score_computation(score_computations_of(w))

(***************************************************************************)
(* Spectra and metadata values.  A metadata value is absent, None, a       *)
(* number, a string, a list or some other object; numbers are integers.    *)
(***************************************************************************)
Value(kind, num, text, items) ==
    [kind |-> kind, num |-> num, text |-> text, items |-> items]

Absent       == Value("absent", 0, "", <<>>)
NoneV        == Value("None", 0, "", <<>>)
IntV(n)      == Value("int", n, "", <<>>)
FloatV(n)    == Value("float", n, "", <<>>)
StrV(t)      == Value("str", 0, t, <<>>)
ListV(items) == Value("list", 0, "", items)
ObjectV      == Value("object", 0, "", <<>>)

Converted(e, n) == [err |-> e, num |-> n]

\* float(value) of Python: a ValueError for a string that is no number, a
\* TypeError for what is neither a string nor a number
py_float(v) ==
    CASE v.kind \in {"int", "float"} -> Converted(NoError, v.num)
      [] v.kind = "str" ->
             (CASE v.text = "100.0" -> Converted(NoError, 100)
                [] v.text = "12"    -> Converted(NoError, 12)
                [] v.text = "2"     -> Converted(NoError, 2)
                [] v.text = "-1"    -> Converted(NoError, 0 - 1)
                [] v.text = "445.0" -> Converted(NoError, 445)
                [] OTHER -> Converted(Error("ValueError", v.text), 0))
      [] OTHER -> Converted(Error("TypeError", v.kind), 0)

\* int(value) of Python: a string with a decimal point or a sign after the
\* digits is a ValueError
py_int(v) ==
    CASE v.kind \in {"int", "float"} -> Converted(NoError, v.num)
      [] v.kind = "str" ->
             (CASE v.text = "12" -> Converted(NoError, 12)
                [] v.text = "2"  -> Converted(NoError, 2)
                [] v.text = "-1" -> Converted(NoError, 0 - 1)
                [] OTHER -> Converted(Error("ValueError", v.text), 0))
      [] OTHER -> Converted(Error("TypeError", v.kind), 0)

\* a Spectrum: its metadata and the number of its peaks
Spectrum(metadata, peaks) == [metadata |-> metadata, peaks |-> peaks]

Metadata(charge, retention_time, rt, retention_index, precursor_mz, parent_mass) ==
    [charge |-> charge, retention_time |-> retention_time, rt |-> rt,
     retention_index |-> retention_index, precursor_mz |-> precursor_mz,
     parent_mass |-> parent_mass, testfield |-> Absent]

\* spectrum.get(key): None for a key the metadata does not have
get(o, ref, key) ==
    IF key \in DOMAIN o[ref].metadata /\ o[ref].metadata[key].kind # "absent"
    THEN o[ref].metadata[key] ELSE NoneV

\* spectrum.set(key, value)
set(o, ref, key, value) == [o EXCEPT ![ref].metadata[key] = value]

\* spectrum.clone(): a new object with a copy of the metadata and the peaks
clone(o, ref) == Append(o, o[ref])

FilterResult(o, out, e, warned) ==
    [objs |-> o, out |-> out, err |-> e, warned |-> warned]

(***************************************************************************)
(* State.                                                                  *)
(***************************************************************************)
VARIABLES
    pc,                    \* NotConstructed, CtorFailed, Idle, the stages of run, Done, Failed
    workflow,              \* self.__workflow
    ctorArg,               \* the workflow __init__ was called with
    processing_queries,    \* self.processing_queries
    processing_references, \* self.processing_references
    spectrums_queries,     \* self._spectrums_queries
    spectrums_references,  \* self._spectrums_references
    is_symmetric,          \* self.is_symmetric
    scores,                \* self.scores
    i,                     \* the index of the loop of line 251
    query_files,           \* the arguments of the run in progress
    reference_files,
    err,                   \* the exception that ended __init__ or run
    runs,                  \* run() calls so far
    lastStep,              \* what the last completed score step did
    lastAdded,             \* the column the last measure of this run wrote
    thisRun,               \* the state run() started from and what it did so far
    lastSet,               \* the assignments to the properties so far
    logging_file,          \* self.logging_file
    log,                   \* the lines of the logging file
    wf,                    \* the workflow a caller got from create/load
    heap,                  \* the list objects wf refers to
    createArgs,            \* the arguments of the create_workflow call
    yaml_file,             \* the file create_workflow writes and the load reads
    objs,                  \* the Spectrum objects, a filter's clone being a new one
    cur,                   \* the spectrum a chain of filters has arrived at, 0 for None
    call,                  \* the last call of a filter
    calls,                 \* the number of filter calls made
    spectra,               \* the spectra argument of save_as_msp
    filename,              \* the filename argument of save_as_msp, its characters
    outfile,               \* the file of that name: whether it exists, and its lines
    saved                  \* whether save_as_msp was called, and what it raised

pipeVars == <<pc, workflow, ctorArg, processing_queries, processing_references,
              spectrums_queries, spectrums_references, is_symmetric, scores, i,
              query_files, reference_files, err, runs, lastStep, lastAdded,
              thisRun, lastSet, logging_file, log>>
mspVars  == <<spectra, filename, outfile, saved>>
filterVars == <<objs, cur, call, calls, mspVars>>
wfVars   == <<wf, heap, createArgs, yaml_file, filterVars>>
vars     == <<pipeVars, wfVars>>

NoProcessor == [some |-> FALSE, processing_steps |-> <<>>]
Processor(steps) == [some |-> TRUE, processing_steps |-> steps]

NoStep == [kind |-> "none", before |-> NoScores, column |-> AbsentName,
           evaluated |-> {}, entry |-> MaskBare]

NoCallerWorkflow == [some |-> FALSE, origin |-> "", sentinel |-> FALSE,
                     query_filters |-> 0, reference_filters |-> 0,
                     score_computations |-> <<>>, err |-> NoError,
                     order |-> <<>>]

\* what run() found when it was called, the files it has loaded and the
\* passes of the two processors it has made
RunRecord(sc, q, r, sym) ==
    [scores |-> sc, queries |-> q, references |-> r, is_symmetric |-> sym,
     loaded |-> <<>>, query_passes |-> 0, reference_passes |-> 0,
     trace |-> <<>>]

\* a stage a run has entered, or a score computation it has started
Visit(stage, step) == [stage |-> stage, step |-> step]

NoLogFile == "None"

\* faulty variant: the line is written whether or not a logging file is set
write_to_logfile_always(file, lines, written) == written \o lines

\* write_to_logfile, lines 320-325: the file is opened for appending
write_to_logfile(file, lines, written) ==
    IF file # NoLogFile THEN written \o lines ELSE written

NoSet == [n |-> 0, key |-> "", value |-> <<>>, err |-> NoError]

NoCall == [name |-> "", in |-> 0, before |-> <<>>, out |-> 0, err |-> NoError,
           warned |-> FALSE, max_mz |-> 0, n_required |-> 0]

NoCreateArgs ==
    [predefined_processing_queries |-> "", additional_filters_queries |-> <<>>,
     predefined_processing_reference |-> "", additional_filters_references |-> <<>>,
     score_computations |-> <<>>]

\* a file of the file system: the comment lines at its head, the top-level
\* (key, value) pairs of its YAML document in the order they are written, and
\* whether it has been read
NoFile == [exists |-> FALSE, comments |-> 0, pairs |-> <<>>, loaded |-> FALSE]

\* no save_as_msp call is to be made
NothingToSave ==
    /\ spectra = [is_list |-> TRUE, items |-> <<>>]
    /\ filename = <<>>
    /\ outfile = [exists |-> FALSE, lines |-> <<>>]
    /\ saved = [done |-> FALSE, err |-> NoError]

InitPipeline ==
    /\ pc = "NotConstructed"
    /\ workflow = NoWorkflow
    /\ ctorArg = NoWorkflow
    /\ processing_queries = NoProcessor
    /\ processing_references = NoProcessor
    /\ spectrums_queries = NoCollection
    /\ spectrums_references = NoCollection
    /\ is_symmetric = FALSE
    /\ scores = NoScores
    /\ i = 0
    /\ query_files = FileNone
    /\ reference_files = FileNone
    /\ err = NoError
    /\ runs = 0
    /\ lastStep = NoStep
    /\ lastAdded = AbsentName
    /\ thisRun = RunRecord(NoScores, NoCollection, NoCollection, FALSE)
    /\ lastSet = NoSet
    /\ logging_file = NoLogFile
    /\ log = <<>>
    /\ wf = NoCallerWorkflow
    /\ heap = <<>>
    /\ createArgs = NoCreateArgs
    /\ yaml_file = NoFile

\* no spectrum is being filtered
Init ==
    /\ InitPipeline
    /\ objs = <<>>
    /\ cur = 0
    /\ call = NoCall
    /\ calls = 0
    /\ NothingToSave

(***************************************************************************)
(* Pipeline.__init__                                                       *)
(***************************************************************************)
\* faulty variant: the processors are initialised before the workflow is checked
PipelineInitProcessorsFirst(w) ==
    LET e == check_workflow(w)
    IN [err |-> e,
        processing_queries |->
            Processor(initialize_spectrum_processor("None", w.query_filters)),
        processing_references |->
            Processor(initialize_spectrum_processor("None", w.reference_filters))]

\* lines 169-183: check_workflow, then the two processors (is_symmetric is
\* False at line 182)
PipelineInit(w) ==
    LET e == check_workflow(w)
    IN IF e # NoError
       THEN [err |-> e, processing_queries |-> NoProcessor,
             processing_references |-> NoProcessor]
       ELSE [err |-> NoError,
             processing_queries |->
                 Processor(initialize_spectrum_processor("None", w.query_filters)),
             processing_references |->
                 Processor(initialize_spectrum_processor("None", w.reference_filters))]

ConstructLogging(w, file) ==
    /\ pc = "NotConstructed"
    /\ LET r == PipelineInit(w)
       IN /\ pc' = IF r.err = NoError THEN "Idle" ELSE "CtorFailed"
          /\ err' = r.err
          /\ processing_queries' = r.processing_queries
          /\ processing_references' = r.processing_references
    /\ workflow' = w
    /\ ctorArg' = w
    /\ UNCHANGED <<spectrums_queries, spectrums_references, is_symmetric, scores,
                   i, query_files, reference_files, runs, lastStep, lastAdded>>
    /\ UNCHANGED <<thisRun, lastSet>>
    /\ logging_file' = file
    /\ log' = IF PipelineInit(w).err # NoError THEN log
              ELSE write_to_logfile(file, <<"--- Processing pipeline: ---",
                                            "processing_queries",
                                            "processing_references",
                                            "processing_queries">>, log)
    /\ UNCHANGED wfVars

\* a Pipeline without a logging file
Construct(w) == ConstructLogging(w, NoLogFile)

(***************************************************************************)
(* Pipeline.run, one action per stage                                      *)
(***************************************************************************)
Last(s) == s[Len(s)]

RECURSIVE LoadAll(_)
LoadAll(files) ==
    IF files = <<>> THEN <<>> ELSE load_spectra(Head(files)) \o LoadAll(Tail(files))

\* check_files_exist of lines 338-343
check_files_exist(filenames) ==
    IF filenames.kind = "None" THEN Error("AssertionError", "None")
    ELSE LET missing == {k \in 1..Len(filenames.files) :
                            filenames.files[k] \notin ExistingFiles}
         IN IF missing = {} THEN NoError
            ELSE Error("AssertionError",
                       filenames.files[CHOOSE k \in missing :
                                           \A m \in missing : k <= m])

\* faulty variant: the reference files are not checked
ImportCheckQueriesOnly(q, r) ==
    check_files_exist(q)

\* lines 346-348
ImportCheck(q, r) ==
    IF check_files_exist(q) # NoError THEN check_files_exist(q)
    ELSE IF r.kind # "None" THEN check_files_exist(r)
    ELSE NoError

\* run(query_files, reference_files): lines 224-226, up to the call of
\* import_spectrums
RunUpTo(q, r, n) ==
    /\ pc \in {"Idle", "Done", "Failed"}
    /\ runs < n
    /\ pc' = "Importing"
    /\ runs' = runs + 1
    /\ query_files' = q
    /\ reference_files' = r
    /\ err' = NoError
    /\ lastStep' = NoStep
    /\ lastAdded' = AbsentName
    /\ UNCHANGED <<workflow, ctorArg, processing_queries, processing_references,
                   spectrums_queries, spectrums_references, is_symmetric, scores, i>>
    /\ thisRun' = RunRecord(scores, spectrums_queries, spectrums_references,
                            is_symmetric)
    /\ UNCHANGED lastSet
    /\ log' = write_to_logfile(logging_file, <<"--- Start running matchms pipeline. ---", "Start time">>, log)
    /\ UNCHANGED logging_file
    /\ UNCHANGED wfVars

Run(q, r) == RunUpTo(q, r, MaxRuns)

\* import_spectrums, lines 327-375
ImportSpectrums ==
    /\ pc = "Importing"
    /\ LET e == ImportCheck(query_files, reference_files)
       IN IF e # NoError
          THEN /\ pc' = "Failed"
               /\ err' = e
               /\ UNCHANGED <<spectrums_queries, spectrums_references, is_symmetric>>
          ELSE LET loaded == Collection("queries_loaded", LoadAll(query_files.files))
               IN /\ pc' = "ProcessingQueries"
                  /\ err' = NoError
                  /\ spectrums_queries' = loaded
                  /\ IF reference_files.kind = "None"
                     THEN /\ is_symmetric' = TRUE
                          /\ spectrums_references' = loaded
                     ELSE /\ is_symmetric' = is_symmetric
                          /\ spectrums_references' =
                                 Collection("references_loaded",
                                            LoadAll(reference_files.files))
    /\ UNCHANGED <<workflow, ctorArg, processing_queries, processing_references,
                   scores, i, query_files, reference_files, runs, lastStep, lastAdded>>
    /\ thisRun' = IF ImportCheck(query_files, reference_files) # NoError
                  THEN [thisRun EXCEPT !.trace = Append(@, Visit("Importing", 0))]
                  ELSE [thisRun EXCEPT !.loaded = query_files.files
                                                     \o reference_files.files,
                                       !.trace = Append(@, Visit("Importing", 0))]
    /\ UNCHANGED lastSet
    /\ log' = IF ImportCheck(query_files, reference_files) # NoError THEN log
              ELSE write_to_logfile(logging_file,
                       <<"--- Importing data ---", "Loaded query spectra from",
                         "Loaded query spectra">>
                       \o (IF reference_files.kind = "None"
                           THEN <<"Reference spectra are equal to the query spectra">>
                           ELSE <<"Loaded reference spectra from",
                                  "Loaded reference spectra">>), log)
    /\ UNCHANGED logging_file
    /\ UNCHANGED wfVars

\* faulty variant: the references are processed as a pass of their own even
\* in symmetric mode
ProcessQueriesThenReferences ==
    /\ pc = "ProcessingQueries"
    /\ spectrums_queries' =
           Collection("queries_processed",
                      process_spectrums(processing_queries.processing_steps,
                                        spectrums_queries.items))
    /\ pc' = "ProcessingReferences"
    /\ UNCHANGED <<workflow, ctorArg, processing_queries, processing_references,
                   spectrums_references, i, is_symmetric, scores, query_files,
                   reference_files, err, runs, lastStep, lastAdded>>
    /\ thisRun' = [thisRun EXCEPT !.query_passes = @ + 1,
                           !.trace = Append(@, Visit("ProcessingQueries", 0))]
    /\ UNCHANGED lastSet
    /\ log' = write_to_logfile(logging_file,
                  <<"--- Processing spectra ---", "Time", "report">>
                  \o (IF pc' = "ComputingScores"
                      THEN <<"--- Computing scores ---">> ELSE <<>>), log)
    /\ UNCHANGED logging_file
    /\ UNCHANGED wfVars

\* faulty variant: the pass over the references is skipped in every mode
ProcessQueriesSkipReferences ==
    /\ pc = "ProcessingQueries"
    /\ LET processed ==
               Collection("queries_processed",
                          process_spectrums(processing_queries.processing_steps,
                                            spectrums_queries.items))
       IN /\ spectrums_queries' = processed
          /\ spectrums_references' = processed
    /\ pc' = "ComputingScores"
    /\ i' = 0
    /\ UNCHANGED <<workflow, ctorArg, processing_queries, processing_references,
                   is_symmetric, scores, query_files, reference_files, err, runs,
                   lastStep, lastAdded>>
    /\ thisRun' = [thisRun EXCEPT !.query_passes = @ + 1,
                           !.trace = Append(@, Visit("ProcessingQueries", 0))]
    /\ UNCHANGED lastSet
    /\ log' = write_to_logfile(logging_file,
                  <<"--- Processing spectra ---", "Time", "report">>
                  \o (IF pc' = "ComputingScores"
                      THEN <<"--- Computing scores ---">> ELSE <<>>), log)
    /\ UNCHANGED logging_file
    /\ UNCHANGED wfVars

\* lines 233-238 and, in symmetric mode, line 247
ProcessQueries ==
    /\ pc = "ProcessingQueries"
    /\ LET processed ==
               Collection("queries_processed",
                          process_spectrums(processing_queries.processing_steps,
                                            spectrums_queries.items))
       IN /\ spectrums_queries' = processed
          /\ IF is_symmetric = FALSE
             THEN /\ pc' = "ProcessingReferences"
                  /\ UNCHANGED <<spectrums_references, i>>
             ELSE /\ pc' = "ComputingScores"
                  /\ spectrums_references' = processed
                  /\ i' = 0
    /\ UNCHANGED <<workflow, ctorArg, processing_queries, processing_references,
                   is_symmetric, scores, query_files, reference_files, err, runs,
                   lastStep, lastAdded>>
    /\ thisRun' = [thisRun EXCEPT !.query_passes = @ + 1,
                           !.trace = Append(@, Visit("ProcessingQueries", 0))]
    /\ UNCHANGED lastSet
    /\ log' = write_to_logfile(logging_file,
                  <<"--- Processing spectra ---", "Time", "report">>
                  \o (IF pc' = "ComputingScores"
                      THEN <<"--- Computing scores ---">> ELSE <<>>), log)
    /\ UNCHANGED logging_file
    /\ UNCHANGED wfVars

\* lines 240-245
ProcessReferences ==
    /\ pc = "ProcessingReferences"
    /\ spectrums_references' =
           Collection("references_processed",
                      process_spectrums(processing_references.processing_steps,
                                        spectrums_references.items))
    /\ pc' = "ComputingScores"
    /\ i' = 0
    /\ UNCHANGED <<workflow, ctorArg, processing_queries, processing_references,
                   spectrums_queries, is_symmetric, scores, query_files,
                   reference_files, err, runs, lastStep, lastAdded>>
    /\ thisRun' = [thisRun EXCEPT !.reference_passes = @ + 1,
                           !.trace = Append(@, Visit("ProcessingReferences", 0))]
    /\ UNCHANGED lastSet
    /\ log' = write_to_logfile(logging_file, <<"report", "--- Computing scores ---">>, log)
    /\ UNCHANGED logging_file
    /\ UNCHANGED wfVars

(***************************************************************************)
(* The score-computation loop, lines 251-260                               *)
(***************************************************************************)
StepResult(e, sc, kind, column, evaluated) ==
    [err |-> e, scores |-> sc, kind |-> kind, column |-> column,
     evaluated |-> evaluated]

HasColumn(sc, name) == \E k \in 1..Len(sc.score_names) : sc.score_names[k] = name

\* faulty variant: the upper bound is not passed on to filter_by_range
apply_score_masking_no_high(sc, computation) ==
    IF ~sc.some THEN StepResult(Error("AttributeError", "NoneType"), sc, "mask",
                                AbsentName, {})
    ELSE LET o    == computation.opts
             name == IF ~o.has \/ o.name = AbsentName
                     THEN Last(sc.score_names) ELSE o.name
         IN IF ~HasColumn(sc, name)
            THEN StepResult(Error("KeyError", name), sc, "mask", name, {})
            ELSE StepResult(NoError, filter_by_range(sc, name, o.low, AbsentNum),
                            "mask", name, {})

\* _apply_score_masking: the name is score_names[-1] when the entry has no
\* options or options without "name"; filter_by_range raises on a name the
\* matrix does not have, and None has no attribute score_names
_apply_score_masking(sc, computation) ==
    IF ~sc.some THEN StepResult(Error("AttributeError", "NoneType"), sc, "mask",
                                AbsentName, {})
    ELSE LET o    == computation.opts
             name == IF ~o.has \/ o.name = AbsentName
                     THEN Last(sc.score_names) ELSE o.name
         IN IF ~HasColumn(sc, name)
            THEN StepResult(Error("KeyError", name), sc, "mask", name, {})
            ELSE StepResult(NoError, filter_by_range(sc, name, o.low, o.high),
                            "mask", name, {})

\* faulty variant: only names are looked up, a callable is not a measure
get_similarity_measure_names_only(computation) ==
    LET h == HeadOf(computation)
    IN IF h.kind = "str" /\ h.val \in _score_functions
       THEN [err |-> NoError,
             measure |-> Measure(ScoreClass(h.val), computation.opts.tolerance)]
       ELSE IF h.kind = "str"
       THEN [err |-> Error("KeyError", h.val), measure |-> Measure("", AbsentNum)]
       ELSE [err |-> Error("TypeError", "Unknown similarity measure."),
             measure |-> Measure("", AbsentNum)]

\* get_similarity_measure, lines 278-287: the measure, or the error raised
get_similarity_measure(computation) ==
    LET h == HeadOf(computation)
    IN IF h.kind = "str"
       THEN IF h.val \in _score_functions
            THEN [err |-> NoError,
                  measure |-> Measure(ScoreClass(h.val), computation.opts.tolerance)]
            ELSE [err |-> Error("KeyError", h.val), measure |-> Measure("", AbsentNum)]
       ELSE IF h.kind = "callable"
            THEN [err |-> NoError,
                  measure |-> Measure(h.val, computation.opts.tolerance)]
            ELSE [err |-> Error("TypeError", "Unknown similarity measure."),
                  measure |-> Measure("", AbsentNum)]

\* faulty variant: every measure is computed over the full grid with
\* calculate_scores, whatever i is
apply_similarity_measure_always_initialize(sc, computation, k, references, queries) ==
    LET g == get_similarity_measure(computation)
    IN IF g.err # NoError THEN StepResult(g.err, sc, "measure", AbsentName, {})
       ELSE StepResult(NoError, calculate_scores(references, queries, g.measure),
                       IF k = 0 THEN "initialize" ELSE "extend",
                       ColumnName(g.measure), Grid(references, queries))

\* faulty variant: a later measure is evaluated at every pair of the grid
apply_similarity_measure_full_grid(sc, computation, k, references, queries) ==
    LET g == get_similarity_measure(computation)
    IN IF g.err # NoError THEN StepResult(g.err, sc, "measure", AbsentName, {})
       ELSE IF k = 0
       THEN StepResult(NoError, calculate_scores(references, queries, g.measure),
                       "initialize", ColumnName(g.measure), Grid(references, queries))
       ELSE IF ~sc.some
       THEN StepResult(Error("AttributeError", "NoneType"), sc, "extend",
                       AbsentName, {})
       ELSE StepResult(NoError,
                       add_sparse_data(sc,
                           sparse_array(references, queries,
                                        Grid(references, queries), g.measure),
                           ColumnName(g.measure)),
                       "extend", ColumnName(g.measure), Grid(references, queries))

\* _apply_similarity_measure, lines 288-305: calculate_scores when i == 0,
\* otherwise sparse_array at scores.scores.row/col and add_sparse_data
_apply_similarity_measure(sc, computation, k, references, queries) ==
    LET g == get_similarity_measure(computation)
    IN IF g.err # NoError THEN StepResult(g.err, sc, "measure", AbsentName, {})
       ELSE IF k = 0
       THEN StepResult(NoError, calculate_scores(references, queries, g.measure),
                       "initialize", ColumnName(g.measure), Grid(references, queries))
       ELSE IF ~sc.some
       THEN StepResult(Error("AttributeError", "NoneType"), sc, "extend",
                       AbsentName, {})
       ELSE IF ~(sc.coords \subseteq Grid(references, queries))
       THEN StepResult(Error("IndexError", "index out of range"), sc, "extend",
                       AbsentName, {})
       ELSE StepResult(NoError,
                       add_sparse_data(sc,
                           sparse_array(references, queries, sc.coords, g.measure),
                           ColumnName(g.measure)),
                       "extend", ColumnName(g.measure), sc.coords)

\* lines 253-260: masking for a masking name, a similarity measure otherwise
IsMasking(computation) ==
    HeadOf(computation).kind = "str" /\ HeadOf(computation).val \in _masking_functions

Dispatch(sc, computation, k, references, queries) ==
    IF IsMasking(computation)
    THEN _apply_score_masking(sc, computation)
    ELSE _apply_similarity_measure(sc, computation, k, references, queries)

\* one iteration of the loop of line 251
ComputeStep ==
    /\ pc = "ComputingScores"
    /\ i < Len(score_computations_of(workflow))
    /\ LET computation == score_computations_of(workflow)[i + 1]
           r == Dispatch(scores, computation, i, spectrums_references.items,
                         spectrums_queries.items)
       IN IF r.err # NoError
          THEN /\ pc' = "Failed"
               /\ err' = r.err
               /\ UNCHANGED <<scores, i, lastStep, lastAdded>>
          ELSE /\ pc' = "ComputingScores"
               /\ err' = NoError
               /\ scores' = r.scores
               /\ i' = i + 1
               /\ lastStep' = [kind |-> r.kind, before |-> scores,
                               column |-> r.column, evaluated |-> r.evaluated,
                               entry |-> computation]
               /\ lastAdded' = IF r.kind = "mask" THEN lastAdded ELSE r.column
    /\ UNCHANGED <<workflow, ctorArg, processing_queries, processing_references,
                   spectrums_queries, spectrums_references, is_symmetric,
                   query_files, reference_files, runs>>
    /\ thisRun' = [thisRun EXCEPT !.trace = Append(@, Visit("ComputingScores", i + 1))]
    /\ UNCHANGED lastSet
    /\ log' = write_to_logfile(logging_file,
                  <<"Time",
                    IF IsMasking(score_computations_of(workflow)[i + 1])
                    THEN "-- Score masking --" ELSE "-- Score computation --">>,
                  log)
    /\ UNCHANGED logging_file
    /\ UNCHANGED wfVars

\* line 261: the loop is exhausted
Finish ==
    /\ pc = "ComputingScores"
    /\ i = Len(score_computations_of(workflow))
    /\ pc' = "Done"
    /\ UNCHANGED <<workflow, ctorArg, processing_queries, processing_references,
                   spectrums_queries, spectrums_references, is_symmetric, scores, i,
                   query_files, reference_files, err, runs, lastStep, lastAdded>>
    /\ thisRun' = [thisRun EXCEPT !.trace = Append(@, Visit("Done", 0))]
    /\ UNCHANGED lastSet
    /\ log' = write_to_logfile(logging_file, <<"--- Pipeline run finised ---">>, log)
    /\ UNCHANGED logging_file
    /\ UNCHANGED wfVars

QueryFileInputs     == {FileStr("a.msp")}
ReferenceFileInputs == {FileNone, FileStr("b.msp"), FileStr("missing.msp")}

Next ==
    \/ \E w \in WorkflowInputs : Construct(w)
    \/ \E q \in QueryFileInputs, r \in ReferenceFileInputs : Run(q, r)
    \/ ImportSpectrums
    \/ ProcessQueries
    \/ ProcessReferences
    \/ ComputeStep
    \/ Finish

Spec == Init /\ [][Next]_vars

(***************************************************************************)
(* Repeated runs of one Pipeline with varied file arguments: single names  *)
(* and lists, in both orders, with and without a file that does not exist. *)
(***************************************************************************)
ImportWorkflows ==
    {Workflow("OrderedDict", expected_keys, <<BelowMzStep>>, <<ChargeStep>>,
              <<PrecursorEntry>>)}

QueryFileLists ==
    {FileStr("a.msp"), FileList(<<"a.msp", "b.msp">>),
     FileList(<<"b.msp", "a.msp">>), FileList(<<"a.msp", "missing.msp">>)}

ReferenceFileLists ==
    {FileNone, FileStr("b.msp"), FileList(<<"b.msp", "a.msp">>),
     FileList(<<"b.msp", "missing.msp">>)}

NextImport ==
    \/ \E w \in ImportWorkflows : Construct(w)
    \/ \E q \in QueryFileLists, r \in ReferenceFileLists : RunUpTo(q, r, MaxImports)
    \/ ImportSpectrums
    \/ ProcessQueries
    \/ ProcessReferences
    \/ ComputeStep
    \/ Finish

SpecImport == Init /\ [][NextImport]_vars

(***************************************************************************)
(* Pipelines with and without a logging file, on the same workflows and    *)
(* files.                                                                  *)
(***************************************************************************)
LogWorkflows ==
    {Workflow("OrderedDict", expected_keys, qf, <<ChargeStep>>, sc) :
        qf \in {<<>>, <<BelowMzStep>>},
        sc \in {<<PrecursorEntry, CosineEntry, MaskLow>>,
                <<CosineEntry, MaskNamedLow, PrecursorEntry>>,
                <<PrecursorEntry, MaskNamed>>,
                <<UnknownEntry>>}}

LogFileInputs == {NoLogFile, "run.log"}

NextLog ==
    \/ \E w \in LogWorkflows, file \in LogFileInputs : ConstructLogging(w, file)
    \/ \E q \in QueryFileInputs, r \in ReferenceFileInputs : Run(q, r)
    \/ ImportSpectrums
    \/ ProcessQueries
    \/ ProcessReferences
    \/ ComputeStep
    \/ Finish

SpecLog == Init /\ [][NextLog]_vars

(***************************************************************************)
(* The property setters, lines 382-403, called between runs.  An exception *)
(* a setter raises goes to the caller and is recorded in lastSet.          *)
(***************************************************************************)
Assigned(key, value, e) ==
    [n |-> lastSet.n + 1, key |-> key, value |-> value, err |-> e]

\* the getter of lines 396-398
reference_filters_getter(w) ==
    IF "reference_filters" \in w.keys THEN w.reference_filters ELSE <<>>

\* score_computations.setter, lines 382-385: store, then check
SetScoreComputations(computations) ==
    /\ pc \in {"Idle", "Done", "Failed"}
    /\ lastSet.n < MaxSets
    /\ workflow' = [workflow EXCEPT !.score_computations = computations]
    /\ lastSet' = Assigned("score_computations", computations,
                           check_score_computation(computations))
    /\ UNCHANGED <<pc, ctorArg, processing_queries, processing_references,
                   spectrums_queries, spectrums_references, is_symmetric, scores,
                   i, query_files, reference_files, err, runs, lastStep,
                   lastAdded, thisRun>>
    /\ UNCHANGED <<logging_file, log>>
    /\ UNCHANGED wfVars

\* faulty variant: the list is stored and the processor is left as it was
SetQueryFiltersNoRebuild(filters) ==
    /\ pc \in {"Idle", "Done", "Failed"}
    /\ lastSet.n < MaxSets
    /\ workflow' = [workflow EXCEPT !.query_filters = filters]
    /\ lastSet' = Assigned("query_filters", filters, NoError)
    /\ UNCHANGED <<pc, ctorArg, processing_queries, processing_references,
                   spectrums_queries, spectrums_references, is_symmetric, scores,
                   i, query_files, reference_files, err, runs, lastStep,
                   lastAdded, thisRun>>
    /\ UNCHANGED <<logging_file, log>>
    /\ UNCHANGED wfVars

\* query_filters.setter, lines 391-394: store, then
\* _initialize_spectrum_processor_queries (lines 185-190)
SetQueryFilters(filters) ==
    /\ pc \in {"Idle", "Done", "Failed"}
    /\ lastSet.n < MaxSets
    /\ workflow' = [workflow EXCEPT !.query_filters = filters]
    /\ processing_queries' =
           Processor(initialize_spectrum_processor("None", workflow'.query_filters))
    /\ lastSet' = Assigned("query_filters", filters, NoError)
    /\ UNCHANGED <<pc, ctorArg, processing_references,
                   spectrums_queries, spectrums_references, is_symmetric, scores,
                   i, query_files, reference_files, err, runs, lastStep,
                   lastAdded, thisRun>>
    /\ log' = write_to_logfile(logging_file, <<"processing_queries">>, log)
    /\ UNCHANGED logging_file
    /\ UNCHANGED wfVars

\* reference_filters.setter, lines 400-403: the list is stored under the key
\* "refernece_filters", then _initialize_spectrum_processor_references
\* (lines 196-201) reads the key "reference_filters"
SetReferenceFilters(filters) ==
    /\ pc \in {"Idle", "Done", "Failed"}
    /\ lastSet.n < MaxSets
    /\ workflow' = [workflow EXCEPT !.keys = @ \cup {"refernece_filters"},
                                    !.refernece_filters = filters]
    /\ processing_references' =
           Processor(initialize_spectrum_processor("None",
                                                   workflow'.reference_filters))
    /\ lastSet' = Assigned("reference_filters", filters, NoError)
    /\ UNCHANGED <<pc, ctorArg, processing_queries,
                   spectrums_queries, spectrums_references, is_symmetric, scores,
                   i, query_files, reference_files, err, runs, lastStep,
                   lastAdded, thisRun>>
    /\ log' = write_to_logfile(logging_file, <<"processing_references", "processing_queries">>, log)
    /\ UNCHANGED logging_file
    /\ UNCHANGED wfVars

SetterWorkflows ==
    {Workflow("OrderedDict", expected_keys, <<BelowMzStep>>, <<ChargeStep>>,
              <<PrecursorEntry>>)}

FilterListInputs == {<<>>, <<ChargeStep>>, <<ChargeStep, BelowMzStep>>}

ScoreComputationInputs == {<<CosineEntry, MaskLow>>, <<UnknownEntry>>}

SetterReferenceFiles == {FileNone, FileStr("b.msp")}

NextSetters ==
    \/ \E w \in SetterWorkflows : Construct(w)
    \/ \E computations \in ScoreComputationInputs : SetScoreComputations(computations)
    \/ \E filters \in FilterListInputs : SetQueryFilters(filters)
    \/ \E filters \in FilterListInputs : SetReferenceFilters(filters)
    \/ \E q \in QueryFileInputs, r \in SetterReferenceFiles : Run(q, r)
    \/ ImportSpectrums
    \/ ProcessQueries
    \/ ProcessReferences
    \/ ComputeStep
    \/ Finish

SpecSetters == Init /\ [][NextSetters]_vars

(***************************************************************************)
(* The module-level workflow functions.  The workflow a caller holds keeps *)
(* its two filter lists as references into heap, so that two keys bound to *)
(* one list object are told apart from two equal lists.                    *)
(***************************************************************************)
\* order: the keys in the order of the OrderedDict (lines 30-33)
CallerWorkflow(origin, sentinel, q, r, sc) ==
    [some |-> TRUE, origin |-> origin, sentinel |-> sentinel,
     query_filters |-> q, reference_filters |-> r,
     score_computations |-> sc, err |-> NoError,
     order |-> <<"query_filters", "reference_filters", "score_computations">>]

FailedLoad(e) == [NoCallerWorkflow EXCEPT !.err = e]

\* create_workflow, lines 28-40, without the optional dump to a file
create_workflow(predefined_processing_queries, predefined_processing_reference, additional_filters_queries, additional_filters_references, score_computations) ==
    [heap |-> <<initialize_spectrum_processor(predefined_processing_queries,
                                              additional_filters_queries),
                initialize_spectrum_processor(predefined_processing_reference,
                                              additional_filters_references)>>,
     wf   |-> CallerWorkflow("create", FALSE, 1, 2, score_computations)]

\* a YAML document: its keys, and the values under the three expected keys;
\* reference_filters is a string or a list
Document(keys, qf, rfKind, rfStr, rfList, sc) ==
    [keys |-> keys, query_filters |-> qf,
     reference_filters |-> [kind |-> rfKind, str |-> rfStr, list |-> rfList],
     score_computations |-> sc]

\* load_in_workflow_from_yaml_file, lines 54-58: ordered_load builds one list
\* object per list of the document; line 57 binds reference_filters to the
\* object that query_filters is bound to
load_in_workflow_from_yaml_file(doc) ==
    IF "reference_filters" \notin doc.keys
    THEN [heap |-> <<>>, wf |-> FailedLoad(Error("KeyError", "reference_filters"))]
    ELSE IF doc.reference_filters.kind = "str"
            /\ doc.reference_filters.str = "processing_queries"
    THEN IF "query_filters" \notin doc.keys
         THEN [heap |-> <<>>, wf |-> FailedLoad(Error("KeyError", "query_filters"))]
         ELSE [heap |-> <<doc.query_filters>>,
               wf   |-> CallerWorkflow("load", TRUE, 1, 1, doc.score_computations)]
    ELSE [heap |-> <<doc.query_filters, doc.reference_filters.list>>,
          wf   |-> CallerWorkflow("load", FALSE, 1, 2, doc.score_computations)]

CreateWorkflow(pq, pr, aq, ar, sc) ==
    /\ ~wf.some /\ wf.err = NoError
    /\ LET r == create_workflow(pq, pr, aq, ar, sc)
       IN heap' = r.heap /\ wf' = r.wf
    /\ createArgs' = [predefined_processing_queries |-> pq,
                      additional_filters_queries |-> aq,
                      predefined_processing_reference |-> pr,
                      additional_filters_references |-> ar,
                      score_computations |-> sc]
    /\ UNCHANGED yaml_file
    /\ UNCHANGED filterVars
    /\ UNCHANGED pipeVars

LoadWorkflow(doc) ==
    /\ ~wf.some /\ wf.err = NoError
    /\ LET r == load_in_workflow_from_yaml_file(doc)
       IN heap' = r.heap /\ wf' = r.wf
    /\ UNCHANGED <<createArgs, yaml_file>>
    /\ UNCHANGED filterVars
    /\ UNCHANGED pipeVars

\* the caller: workflow["query_filters"].append(step)
AppendQueryFilter(step) ==
    /\ wf.some
    /\ Len(heap[wf.query_filters]) < MaxFilters
    /\ heap' = [heap EXCEPT ![wf.query_filters] = Append(@, step)]
    /\ UNCHANGED <<wf, createArgs, yaml_file>>
    /\ UNCHANGED filterVars
    /\ UNCHANGED pipeVars

\* the caller: workflow["reference_filters"].append(step)
AppendReferenceFilter(step) ==
    /\ wf.some
    /\ Len(heap[wf.reference_filters]) < MaxFilters
    /\ heap' = [heap EXCEPT ![wf.reference_filters] = Append(@, step)]
    /\ UNCHANGED <<wf, createArgs, yaml_file>>
    /\ UNCHANGED filterVars
    /\ UNCHANGED pipeVars

Presets == {"basic", "default"}
AdditionalFilterInputs == {<<>>, <<ChargeStep>>, <<BelowMzStep, ChargeStep>>}
CallerScoreComputations ==
    {<<>>, <<PrecursorEntry>>, <<CosineEntry, MaskLow>>, <<UnknownEntry>>,
     <<PrecursorEntry, NumberEntry>>, <<Spec2VecEntry>>}

DocumentInputs ==
    {Document(expected_keys, qf, "str", "processing_queries", <<>>, sc) :
        qf \in {<<>>, <<ChargeStep>>}, sc \in {<<>>, <<PrecursorEntry>>}}
    \cup
    {Document(expected_keys, qf, "list", "", rf, <<PrecursorEntry>>) :
        qf \in {<<>>, <<ChargeStep>>}, rf \in {<<>>, <<ChargeStep>>}}
    \cup
    {Document({"query_filters", "score_computations"}, <<>>, "list", "", <<>>, <<>>),
     Document(expected_keys, <<>>, "str", "something_else", <<>>, <<>>)}

StepInputs == {Step("bare", "make_charge_int", AbsentNum), BelowMzStep}

NextWorkflow ==
    \/ \E pq \in Presets, pr \in Presets, aq \in AdditionalFilterInputs,
          sc \in CallerScoreComputations :
          CreateWorkflow(pq, pr, aq, <<>>, sc)
    \/ \E doc \in DocumentInputs : LoadWorkflow(doc)
    \/ \E step \in StepInputs : AppendQueryFilter(step)
    \/ \E step \in StepInputs : AppendReferenceFilter(step)

SpecWorkflow == Init /\ [][NextWorkflow]_vars

(***************************************************************************)
(* create_workflow with yaml_file_name, and the load of the file it wrote. *)
(* ordered_dump uses yaml.SafeDumper (line 76): a string or a number is    *)
(* written as a scalar, a list or tuple as a sequence, a dict as a         *)
(* mapping, and an object of any other type (a class, a function) has no   *)
(* representation.  ordered_load builds the values back from the nodes.    *)
(***************************************************************************)
RepresentStep(step) ==
    [node   |-> IF step.shape = "bare" THEN "scalar" ELSE "sequence",
     length |-> IF step.shape = "list2" THEN 2 ELSE 1,
     text   |-> step.name,
     max_mz |-> step.max_mz]

ConstructStep(n) ==
    Step(IF n.node = "scalar" THEN "bare"
         ELSE IF n.length = 1 THEN "list1" ELSE "list2",
         n.text, n.max_mz)

Representable(entry) == entry.head.kind # "callable"

RepresentEntry(entry) ==
    [node |-> IF entry.isList THEN "sequence" ELSE "scalar",
     tag  |-> IF entry.head.kind = "str" THEN "str" ELSE "int",
     text |-> entry.head.val,
     opts |-> entry.opts]

ConstructEntry(n) ==
    Entry(n.node = "sequence",
          IF n.tag = "str" THEN Str(n.text) ELSE Other(n.text),
          n.opts)

MapSeq(Op(_), s) == [k \in 1..Len(s) |-> Op(s[k])]

\* ordered_dump, lines 76-85: the pairs of data.items() in their order, or
\* the RepresenterError of the first value that has no representation
ordered_dump(order, query_filters, reference_filters, score_computations) ==
    IF \E k \in 1..Len(score_computations) : ~Representable(score_computations[k])
    THEN [err |-> Error("RepresenterError", "cannot represent an object"),
          pairs |-> <<>>]
    ELSE [err |-> NoError,
          pairs |-> [k \in 1..Len(order) |->
              [key |-> order[k],
               nodes |-> CASE order[k] = "query_filters" ->
                                  MapSeq(RepresentStep, query_filters)
                           [] order[k] = "reference_filters" ->
                                  MapSeq(RepresentStep, reference_filters)
                           [] OTHER -> MapSeq(RepresentEntry, score_computations)]]]

\* the value under a key of the document, the empty list without the key
NodesUnder(pairs, key) ==
    IF \E k \in 1..Len(pairs) : pairs[k].key = key
    THEN pairs[CHOOSE k \in 1..Len(pairs) : pairs[k].key = key].nodes
    ELSE <<>>

\* ordered_load, lines 61-73, of a document whose three values are lists
ordered_load(pairs) ==
    [order |-> MapSeq(LAMBDA pr : pr.key, pairs),
     doc   |-> Document({pairs[k].key : k \in 1..Len(pairs)},
                        MapSeq(ConstructStep, NodesUnder(pairs, "query_filters")),
                        "list", "",
                        MapSeq(ConstructStep, NodesUnder(pairs, "reference_filters")),
                        MapSeq(ConstructEntry,
                               NodesUnder(pairs, "score_computations")))]

\* create_workflow(yaml_file_name=f, ...), lines 28-40: the file is opened
\* for writing and gets its three comment lines before ordered_dump runs
CreateWorkflowToFile(pq, pr, aq, ar, sc) ==
    /\ ~wf.some /\ wf.err = NoError
    /\ ~yaml_file.exists
    /\ LET r == create_workflow(pq, pr, aq, ar, sc)
           d == ordered_dump(r.wf.order, r.heap[r.wf.query_filters],
                             r.heap[r.wf.reference_filters],
                             r.wf.score_computations)
       IN /\ yaml_file' = [exists |-> TRUE, comments |-> 3, pairs |-> d.pairs,
                           loaded |-> FALSE]
          /\ IF d.err = NoError
             THEN heap' = r.heap /\ wf' = r.wf
             ELSE heap' = <<>> /\ wf' = FailedLoad(d.err)
    /\ createArgs' = [predefined_processing_queries |-> pq,
                      additional_filters_queries |-> aq,
                      predefined_processing_reference |-> pr,
                      additional_filters_references |-> ar,
                      score_computations |-> sc]
    /\ UNCHANGED filterVars
    /\ UNCHANGED pipeVars

\* load_in_workflow_from_yaml_file(f) of the file create_workflow wrote; a
\* file without a document loads as None, which has no item access
LoadWorkflowFromFile ==
    /\ yaml_file.exists
    /\ ~yaml_file.loaded
    /\ yaml_file' = [yaml_file EXCEPT !.loaded = TRUE]
    /\ IF yaml_file.pairs = <<>>
       THEN heap' = <<>> /\ wf' = FailedLoad(Error("TypeError", "NoneType"))
       ELSE LET l == ordered_load(yaml_file.pairs)
                r == load_in_workflow_from_yaml_file(l.doc)
            IN /\ heap' = r.heap
               /\ wf' = IF r.wf.some THEN [r.wf EXCEPT !.order = l.order]
                                     ELSE r.wf
    /\ UNCHANGED createArgs
    /\ UNCHANGED filterVars
    /\ UNCHANGED pipeVars

NextYaml ==
    \/ \E pq \in Presets, pr \in Presets, aq \in AdditionalFilterInputs,
          ar \in AdditionalFilterInputs, sc \in CallerScoreComputations :
          CreateWorkflowToFile(pq, pr, aq, ar, sc)
    \/ LoadWorkflowFromFile

SpecYaml == Init /\ [][NextYaml]_vars

(***************************************************************************)
(* Runs of one Pipeline with assignments to score_computations in between. *)
(***************************************************************************)
RerunWorkflows ==
    {Workflow("OrderedDict", expected_keys, <<BelowMzStep>>, <<ChargeStep>>, sc) :
        sc \in {<<CosineEntry>>, <<CosineEntry, MaskLow>>}}

RerunComputationInputs == {<<MaskLow>>, <<CosineEntry, MaskLow>>, <<PrecursorEntry>>}

RerunReferenceFiles == {FileNone, FileStr("b.msp")}

NextReruns ==
    \/ \E w \in RerunWorkflows : Construct(w)
    \/ \E computations \in RerunComputationInputs : SetScoreComputations(computations)
    \/ \E q \in QueryFileInputs, r \in RerunReferenceFiles : RunUpTo(q, r, MaxImports)
    \/ ImportSpectrums
    \/ ProcessQueries
    \/ ProcessReferences
    \/ ComputeStep
    \/ Finish

SpecReruns == Init /\ [][NextReruns]_vars

(***************************************************************************)
(* Construction and one run, for every short list of score computations,   *)
(* accepted or not.                                                        *)
(***************************************************************************)
DispatchWorkflows ==
    {Workflow("OrderedDict", expected_keys, <<>>, <<ChargeStep>>, sc) :
        sc \in SeqsUpTo(GoodEntries \cup BadEntries, MaxComp - 1)
               \cup {<<Spec2VecEntry, CosineEntry, MaskLow>>}}

NextDispatch ==
    \/ \E w \in DispatchWorkflows : Construct(w)
    \/ \E q \in QueryFileInputs, r \in SetterReferenceFiles : Run(q, r)
    \/ ImportSpectrums
    \/ ProcessQueries
    \/ ProcessReferences
    \/ ComputeStep
    \/ Finish

SpecDispatch == Init /\ [][NextDispatch]_vars

(***************************************************************************)
(* The filters.  A filter takes the Spectrum objects and a reference to    *)
(* its input (0 for None) and gives the objects after the call, the        *)
(* reference it returns, the exception it raises and whether it warned.    *)
(***************************************************************************)
MaxChain == 2

\* faulty variant: None is not returned for None, and None has no clone
make_charge_int_no_none_check(o, spectrum_in) ==
    IF spectrum_in = 0
    THEN FilterResult(o, 0, Error("AttributeError", "NoneType"), FALSE)
    ELSE FilterResult(clone(o, spectrum_in), Len(o) + 1, NoError, FALSE)

\* faulty variant: the charge is set on the input spectrum itself
make_charge_int_in_place(o, spectrum_in) ==
    IF spectrum_in = 0 THEN FilterResult(o, 0, NoError, FALSE)
    ELSE LET charge == get(o, spectrum_in, "charge")
         IN IF charge.kind = "str" /\ py_int(charge).err = NoError
            THEN FilterResult(set(o, spectrum_in, "charge", IntV(py_int(charge).num)),
                              spectrum_in, NoError, FALSE)
            ELSE FilterResult(o, spectrum_in, NoError, charge.kind = "str")

\* make_charge_int, lines 8-27 of make_charge_int.py
make_charge_int(o, spectrum_in) ==
    IF spectrum_in = 0 THEN FilterResult(o, 0, NoError, FALSE)
    ELSE LET c        == clone(o, spectrum_in)
             spectrum == Len(o) + 1
             charge   == get(c, spectrum, "charge")
         IN IF charge.kind = "list"
            THEN IF charge.items = <<>>
                 THEN FilterResult(o, 0, Error("IndexError", "list index out of range"),
                                   FALSE)
                 ELSE IF py_int(charge.items[1]).err # NoError
                 THEN FilterResult(o, 0, py_int(charge.items[1]).err, FALSE)
                 ELSE FilterResult(set(c, spectrum, "charge",
                                       IntV(py_int(charge.items[1]).num)),
                                   spectrum, NoError, FALSE)
            ELSE IF charge.kind = "str"
            THEN IF py_int(charge).err # NoError
                 THEN FilterResult(c, spectrum, NoError, TRUE)
                 ELSE FilterResult(set(c, spectrum, "charge", IntV(py_int(charge).num)),
                                   spectrum, NoError, FALSE)
            ELSE FilterResult(c, spectrum, NoError, FALSE)

_retention_time_keys ==
    <<"retention_time", "retentiontime", "rt", "scan_start_time", "RT_Query">>
_retention_index_keys == <<"retention_index", "retentionindex", "ri">>

\* safe_convert_to_float, lines 39-59: only ValueError is caught
safe_convert_to_float(value) ==
    LET v == IF value.kind = "list" /\ Len(value.items) = 1
             THEN value.items[1] ELSE value
        r == py_float(v)
    IN IF r.err.type = "ValueError"
       THEN [err |-> NoError, value |-> NoneV, warned |-> TRUE]
       ELSE IF r.err # NoError
       THEN [err |-> r.err, value |-> NoneV, warned |-> FALSE]
       ELSE [err |-> NoError,
             value |-> IF r.num >= 0 THEN FloatV(r.num) ELSE NoneV,
             warned |-> FALSE]

\* get_common_keys: the accepted keys the metadata has
get_common_keys(o, ref, accepted_keys) ==
    SelectSeq(accepted_keys,
              LAMBDA key : key \in DOMAIN o[ref].metadata
                           /\ o[ref].metadata[key].kind # "absent")

\* filter_none: the elements that are not None
filter_none(values) == SelectSeq(values, LAMBDA v : v.kind # "None")

\* _add_retention and safe_store_value, lines 17-36 and 62-84: every value
\* under a common key that is not None is converted (line 80), the first
\* result that is not None is stored
_add_retention(o, spectrum, target_key, accepted_keys) ==
    LET common_keys     == get_common_keys(o, spectrum, accepted_keys)
        values_for_keys == filter_none([k \in 1..Len(common_keys) |->
                                           get(o, spectrum, common_keys[k])])
        results == [k \in 1..Len(values_for_keys) |->
                       safe_convert_to_float(values_for_keys[k])]
        raised  == {k \in 1..Len(results) : results[k].err # NoError}
        values  == filter_none([k \in 1..Len(results) |-> results[k].value])
        value   == IF values = <<>> THEN NoneV ELSE values[1]
        warned  == \E k \in 1..Len(results) : results[k].warned
        first   == CHOOSE k \in raised : \A m \in raised : k <= m
    IN IF raised # {}
       THEN FilterResult(o, 0, results[first].err,
                         \E k \in 1..(first - 1) : results[k].warned)
       ELSE FilterResult(set(o, spectrum, target_key,
                             IF value.kind = "None" THEN NoneV
                             ELSE safe_convert_to_float(value).value),
                         spectrum, NoError, warned)

\* add_retention_time, lines 87-108
add_retention_time(o, spectrum_in) ==
    IF spectrum_in = 0 THEN FilterResult(o, 0, NoError, FALSE)
    ELSE LET r == _add_retention(clone(o, spectrum_in), Len(o) + 1,
                                 "retention_time", _retention_time_keys)
         IN IF r.err # NoError THEN [r EXCEPT !.objs = o] ELSE r

\* add_retention_index, lines 111-130
add_retention_index(o, spectrum_in) ==
    IF spectrum_in = 0 THEN FilterResult(o, 0, NoError, FALSE)
    ELSE LET r == _add_retention(clone(o, spectrum_in), Len(o) + 1,
                                 "retention_index", _retention_index_keys)
         IN IF r.err # NoError THEN [r EXCEPT !.objs = o] ELSE r

\* require_precursor_below_mz as the tests of test_require_precursor_below_mz.py
\* show it: None for None, an AssertionError without a precursor_mz that is a
\* number, None above max_mz, and otherwise a clone
require_precursor_below_mz(o, spectrum_in, max_mz) ==
    IF spectrum_in = 0 THEN FilterResult(o, 0, NoError, FALSE)
    ELSE LET precursor_mz == get(o, spectrum_in, "precursor_mz")
         IN IF precursor_mz.kind = "None"
            THEN FilterResult(o, 0, Error("AssertionError", "Precursor mz absent."),
                              FALSE)
            ELSE IF precursor_mz.kind \notin {"int", "float"}
            THEN FilterResult(o, 0,
                     Error("AssertionError",
                           "Expected 'precursor_mz' to be a scalar number."), FALSE)
            ELSE IF precursor_mz.num > max_mz
            THEN FilterResult(o, 0, NoError, FALSE)
            ELSE FilterResult(clone(o, spectrum_in), Len(o) + 1, NoError, FALSE)

\* reduce_to_number_of_peaks as the tests of test_reduce_to_number_of_peaks.py
\* show it: None for None, an exception for a ratio_desired without
\* parent_mass, None with fewer than n_required peaks, otherwise a spectrum;
\* ratio_desired is in tenths
reduce_to_number_of_peaks(o, spectrum_in, n_required, ratio_desired) ==
    IF spectrum_in = 0 THEN FilterResult(o, 0, NoError, FALSE)
    ELSE LET parent_mass == get(o, spectrum_in, "parent_mass")
             peaks       == o[spectrum_in].peaks
         IN IF ratio_desired # AbsentNum /\ parent_mass.kind = "None"
            THEN FilterResult(o, 0,
                     Error("Exception",
                           "Cannot use ratio_desired for spectrum without parent_mass."),
                     FALSE)
            ELSE IF peaks < n_required
            THEN FilterResult(o, 0, NoError, FALSE)
            ELSE IF ratio_desired = AbsentNum
            THEN FilterResult(clone(o, spectrum_in), Len(o) + 1, NoError, FALSE)
            ELSE LET desired == (ratio_desired * parent_mass.num) \div 10
                     kept == IF desired < n_required THEN n_required
                             ELSE IF desired > peaks THEN peaks ELSE desired
                 IN FilterResult([clone(o, spectrum_in) EXCEPT ![Len(o) + 1].peaks = kept],
                                 Len(o) + 1, NoError, FALSE)

\* one call of a filter on the spectrum the chain has arrived at
Called(name, r, max_mz, n_required) ==
    /\ call.err = NoError
    /\ calls < MaxChain
    /\ calls' = calls + 1
    /\ objs' = r.objs
    /\ cur' = IF r.err = NoError THEN r.out ELSE cur
    /\ call' = [name |-> name, in |-> cur,
                before |-> IF cur = 0 THEN <<>> ELSE <<objs[cur]>>,
                out |-> r.out, err |-> r.err, warned |-> r.warned,
                max_mz |-> max_mz, n_required |-> n_required]
    /\ UNCHANGED <<wf, heap, createArgs, yaml_file, mspVars>>
    /\ UNCHANGED pipeVars

MakeChargeInt == Called("make_charge_int", make_charge_int(objs, cur), 0, 0)

AddRetentionTime == Called("add_retention_time", add_retention_time(objs, cur), 0, 0)

AddRetentionIndex == Called("add_retention_index", add_retention_index(objs, cur), 0, 0)

RequirePrecursorBelowMz(max_mz) ==
    Called("require_precursor_below_mz",
           require_precursor_below_mz(objs, cur, max_mz), max_mz, 0)

ReduceToNumberOfPeaks(n_required, ratio_desired) ==
    Called("reduce_to_number_of_peaks",
           reduce_to_number_of_peaks(objs, cur, n_required, ratio_desired),
           0, n_required)

\* the caller sets a field of the spectrum the last filter returned
SetOnReturned ==
    /\ call.name # ""
    /\ call.err = NoError
    /\ cur # 0
    /\ get(objs, cur, "testfield").kind = "None"
    /\ objs' = set(objs, cur, "testfield", StrV("test"))
    /\ UNCHANGED <<cur, call, calls>>
    /\ UNCHANGED <<wf, heap, createArgs, yaml_file, mspVars>>
    /\ UNCHANGED pipeVars

ChargeValues ==
    {Absent, IntV(2), StrV("-1"), StrV("2+"), ListV(<<IntV(1)>>), ListV(<<>>),
     ListV(<<StrV("2+")>>)}

RetentionTimeValues ==
    {Absent, FloatV(100), StrV("100.0"), StrV("NA"), FloatV(0 - 1),
     ListV(<<FloatV(5)>>), ListV(<<FloatV(1), FloatV(2)>>), ObjectV}

RtValues == {Absent, FloatV(200), StrV("NA")}

SpectrumInputs ==
    {Spectrum(Metadata(charge, retention_time, rt, Absent, FloatV(60), Absent), 4) :
        charge \in ChargeValues, retention_time \in RetentionTimeValues,
        rt \in RtValues}
    \cup
    {Spectrum(Metadata(IntV(2), Absent, Absent, retention_index, precursor_mz,
                       parent_mass), peaks) :
        retention_index \in {StrV("12"), ListV(<<>>)},
        precursor_mz \in {Absent, FloatV(60), FloatV(1200), StrV("445.0")},
        parent_mass \in {Absent, FloatV(20)},
        peaks \in {2, 4}}

InitFilters ==
    /\ InitPipeline
    /\ \E spectrum \in SpectrumInputs : objs = <<spectrum>>
    /\ cur = 1
    /\ call = NoCall
    /\ calls = 0
    /\ NothingToSave

NextFilters ==
    \/ MakeChargeInt
    \/ AddRetentionTime
    \/ AddRetentionIndex
    \/ \E max_mz \in {50, DefaultMaxMz} : RequirePrecursorBelowMz(max_mz)
    \/ \E n_required \in {1, 5}, ratio_desired \in {AbsentNum, 1} :
          ReduceToNumberOfPeaks(n_required, ratio_desired)
    \/ SetOnReturned

SpecFilters == InitFilters /\ [][NextFilters]_vars

(***************************************************************************)
(* save_as_msp.  Keys and file names are sequences of characters; a file   *)
(* is the sequence of its lines, each without the "\n" that ends it.       *)
(***************************************************************************)
LowerCase == <<"a", "b", "c", "d", "e", "f", "g", "h", "i", "j", "k", "l", "m",
               "n", "o", "p", "q", "r", "s", "t", "u", "v", "w", "x", "y", "z">>
UpperCase == <<"A", "B", "C", "D", "E", "F", "G", "H", "I", "J", "K", "L", "M",
               "N", "O", "P", "Q", "R", "S", "T", "U", "V", "W", "X", "Y", "Z">>

\* str.upper and str.lower
upper(key) ==
    [k \in 1..Len(key) |->
        IF \E n \in 1..26 : LowerCase[n] = key[k]
        THEN UpperCase[CHOOSE n \in 1..26 : LowerCase[n] = key[k]] ELSE key[k]]

lower(key) ==
    [k \in 1..Len(key) |->
        IF \E n \in 1..26 : UpperCase[n] = key[k]
        THEN LowerCase[CHOOSE n \in 1..26 : UpperCase[n] = key[k]] ELSE key[k]]

\* str.startswith and str.endswith
startswith(text, prefix) ==
    Len(text) >= Len(prefix) /\ SubSeq(text, 1, Len(prefix)) = prefix

endswith(text, suffix) ==
    Len(text) >= Len(suffix)
    /\ SubSeq(text, Len(text) - Len(suffix) + 1, Len(text)) = suffix

\* the string of a sequence of characters
RECURSIVE Text(_)
Text(chars) == IF chars = <<>> THEN "" ELSE chars[1] \o Text(Tail(chars))

\* "{value}" in an f-string: str(value); a float here is a whole number
format(value) ==
    CASE value.kind = "str"   -> value.text
      [] value.kind = "int"   -> ToString(value.num)
      [] value.kind = "float" -> ToString(value.num) \o ".0"
      [] value.kind = "None"  -> "None"

RECURSIVE Spaces(_)
Spaces(n) == IF n = 0 THEN "" ELSE " " \o Spaces(n - 1)

\* str.expandtabs(tabsize) of the fields joined by tab characters: every tab
\* is replaced by the spaces up to the next multiple of tabsize
RECURSIVE expandtabs(_, _)
expandtabs(fields, tabsize) ==
    IF Len(fields) = 1 THEN fields[1]
    ELSE LET head == expandtabs(SubSeq(fields, 1, Len(fields) - 1), tabsize)
         IN head \o Spaces(tabsize - (Len(head) % tabsize)) \o fields[Len(fields)]

\* is_num_peaks, lines 77-78
is_num_peaks(key) ==
    startswith(lower(key), <<"n", "u", "m", " ", "p", "e", "a", "k", "s">>)

\* format_peak_comment, lines 69-74
format_peak_comment(mz, peak_comments) ==
    IF mz.num \notin DOMAIN peak_comments THEN ""
    ELSE "\"" \o peak_comments[mz.num] \o "\""

\* write_metadata, lines 63-66: the lines it writes
write_metadata(metadata) ==
    LET written == SelectSeq(metadata, LAMBDA entry : ~is_num_peaks(entry.key))
    IN [k \in 1..Len(written) |->
           Text(upper(written[k].key)) \o ": " \o format(written[k].value)]

\* write_peaks, lines 56-60
write_peaks(peaks, peak_comments) ==
    <<"NUM PEAKS: " \o ToString(Len(peaks))>>
    \o [k \in 1..Len(peaks) |->
           expandtabs(<<format(peaks[k].mz), format(peaks[k].intensity),
                        format_peak_comment(peaks[k].mz, peak_comments)>>, 12)]

\* write_spectrum, lines 50-53; os.linesep is "\n"
write_spectrum(spectrum) ==
    write_metadata(spectrum.metadata)
    \o write_peaks(spectrum.peaks, spectrum.peak_comments)
    \o <<"">>

\* ensure_list, lines 81-85
ensure_list(s) == IF s.is_list THEN s.items ELSE <<s.items[1]>>

RECURSIVE write_all(_)
write_all(list) ==
    IF list = <<>> THEN <<>> ELSE write_spectrum(list[1]) \o write_all(Tail(list))

\* faulty variant: the file is opened for writing before the name is checked
SaveAsMspOpenFirst ==
    /\ ~saved.done
    /\ filename # <<>>
    /\ IF ~endswith(filename, <<".", "m", "s", "p">>)
       THEN /\ saved' = [done |-> TRUE,
                         err |-> Error("AssertionError", "File extension must be 'msp'.")]
            /\ outfile' = [exists |-> TRUE, lines |-> <<>>]
       ELSE /\ saved' = [done |-> TRUE, err |-> NoError]
            /\ outfile' = [exists |-> TRUE, lines |-> write_all(ensure_list(spectra))]
    /\ UNCHANGED <<spectra, filename>>
    /\ UNCHANGED <<objs, cur, call, calls>>
    /\ UNCHANGED <<wf, heap, createArgs, yaml_file>>
    /\ UNCHANGED pipeVars

\* save_as_msp, lines 10-47
SaveAsMsp ==
    /\ ~saved.done
    /\ filename # <<>>
    /\ IF ~endswith(filename, <<".", "m", "s", "p">>)
       THEN /\ saved' = [done |-> TRUE,
                         err |-> Error("AssertionError", "File extension must be 'msp'.")]
            /\ UNCHANGED outfile
       ELSE /\ saved' = [done |-> TRUE, err |-> NoError]
            /\ outfile' = [exists |-> TRUE, lines |-> write_all(ensure_list(spectra))]
    /\ UNCHANGED <<spectra, filename>>
    /\ UNCHANGED <<objs, cur, call, calls>>
    /\ UNCHANGED <<wf, heap, createArgs, yaml_file>>
    /\ UNCHANGED pipeVars

MetadataItem(key, value) == [key |-> key, value |-> value]
Peak(mz, intensity) == [mz |-> FloatV(mz), intensity |-> FloatV(intensity)]
MspSpectrum(metadata, peaks, peak_comments) ==
    [metadata |-> metadata, peaks |-> peaks, peak_comments |-> peak_comments]

MetadataInputs ==
    {<<>>,
     <<MetadataItem(<<"c", "h", "a", "r", "g", "e">>, IntV(0 - 1)),
       MetadataItem(<<"r", "i">>, FloatV(12))>>,
     <<MetadataItem(<<"N", "u", "m", " ", "P", "e", "a", "k", "s">>, IntV(7)),
       MetadataItem(<<"i", "d">>, StrV("CCMSLIB01"))>>,
     <<MetadataItem(<<"n", "u", "m", "p", "e", "a", "k", "s">>, IntV(3)),
       MetadataItem(<<"n", "u", "m", " ", "p", "e", "a", "k", "s", ":">>, IntV(2))>>}

PeaksInputs ==
    {<<>>, <<Peak(100, 10)>>, <<Peak(100, 10), Peak(1234567890, 500)>>}

PeakCommentsInputs == {<<>>, [mz \in {100} |-> "fragment"]}

MspSpectrumInputs ==
    {MspSpectrum(metadata, peaks, peak_comments) :
        metadata \in MetadataInputs, peaks \in PeaksInputs,
        peak_comments \in PeakCommentsInputs}

MaxSpectra == 2

SpectraInputs ==
    {[is_list |-> FALSE, items |-> <<s>>] : s \in MspSpectrumInputs}
    \cup {[is_list |-> TRUE, items |-> <<>>]}
    \cup {[is_list |-> TRUE, items |-> [k \in 1..MaxSpectra |-> IF k = 1 THEN s ELSE t]] :
             s \in MspSpectrumInputs,
             t \in {MspSpectrum(<<MetadataItem(<<"i", "d">>, StrV("second"))>>,
                                <<Peak(50, 1)>>, <<>>)}}

FilenameInputs ==
    {<<"t", ".", "m", "s", "p">>, <<"t", ".", "t", "x", "t">>}

InitMsp ==
    /\ InitPipeline
    /\ objs = <<>>
    /\ cur = 0
    /\ call = NoCall
    /\ calls = 0
    /\ spectra \in SpectraInputs
    /\ filename \in FilenameInputs
    /\ outfile \in {[exists |-> FALSE, lines |-> <<>>],
                    [exists |-> TRUE, lines |-> <<"ID: old", "NUM PEAKS: 0", "">>]}
    /\ saved = [done |-> FALSE, err |-> NoError]

NextMsp == SaveAsMsp

SpecMsp == InitMsp /\ [][NextMsp]_vars

(***************************************************************************)
(* Properties                                                              *)
(***************************************************************************)
RunStages == {"Importing", "ProcessingQueries", "ProcessingReferences",
              "ComputingScores", "Done"}

WellFormed(w) == w.type = "OrderedDict" /\ w.keys = expected_keys

Unresolved(sc) == {k \in 1..Len(sc) : ~HeadAccepted(HeadOf(sc[k]))}

\* the entries whose head is no masking name, no registered measure name in
\* any letter case, and no callable
UnresolvedAnyCase(sc) == {k \in 1..Len(sc) : ~HeadAcceptedLowered(HeadOf(sc[k]))}

NameOmitted(computation) ==
    ~computation.opts.has \/ computation.opts.name = AbsentName

\* C1: check_score_computation accepts a list exactly when every head is a
\* masking name, a registered measure name in any letter case, or a callable,
\* and otherwise raises an error naming the head of such an entry.  Stated on
\* the check that __init__ makes of a well-formed workflow.
C1_AcceptsCaseInsensitive ==
    (pc # "NotConstructed" /\ WellFormed(ctorArg)) =>
        LET bad == UnresolvedAnyCase(ctorArg.score_computations)
        IN /\ (pc # "CtorFailed") <=> (bad = {})
           /\ pc = "CtorFailed" =>
                  /\ err.type = "ValueError"
                  /\ \E k \in bad : err.arg = HeadOf(ctorArg.score_computations[k]).val

\* C2: after a load of a document whose reference_filters is the sentinel,
\* the two filter lists are equal, and a later change of one of them leaves
\* the other as it was.
C2_SentinelCopies ==
    [][(wf'.some /\ wf'.sentinel) =>
          /\ heap'[wf'.reference_filters] = heap'[wf'.query_filters]
          /\ (wf.some /\ heap'[wf.query_filters] # heap[wf.query_filters])
                 => heap'[wf.reference_filters] = heap[wf.reference_filters]
          /\ (wf.some /\ heap'[wf.reference_filters] # heap[wf.reference_filters])
                 => heap'[wf.query_filters] = heap[wf.query_filters]]_vars

\* C3: with a workflow whose first score computation is a masking operation
\* no execution is at or past the Importing stage.
C3_MaskFirstNeverImports ==
    (Len(score_computations_of(workflow)) > 0
        /\ IsMasking(score_computations_of(workflow)[1]))
    => pc \notin RunStages

C5_CreateValidates ==
    (wf.some /\ wf.origin = "create") => Unresolved(wf.score_computations) = {}

\* C6: after a masking step with a name, the coordinates are a subset of those
\* before the step, and are exactly the coordinates whose value in the named
\* column lies between low and high, a bound that is not given not counting.
C6_MaskKeepsRange ==
    (lastStep.kind = "mask" /\ ~NameOmitted(lastStep.entry)) =>
        LET o   == lastStep.entry.opts
            b   == lastStep.before
            col == b.data[ColumnIndex(b, o.name)]
        IN /\ scores.coords \subseteq b.coords
           /\ scores.coords =
                  {c \in b.coords : /\ (o.low = AbsentNum \/ o.low <= col[c])
                                    /\ (o.high = AbsentNum \/ col[c] <= o.high)}

\* C6 witness: a named mask with both bounds removed some coordinates and
\* kept others
C6_Witness ==
    /\ lastStep.kind = "mask"
    /\ ~NameOmitted(lastStep.entry)
    /\ lastStep.entry.opts.low # AbsentNum
    /\ lastStep.entry.opts.high # AbsentNum
    /\ scores.coords # lastStep.before.coords
    /\ scores.coords # {}

\* C7: a masking entry without a name, in either shape, masks on the column
\* written by the last initialize or extend step of the run, and does not fail.
C7_DefaultIsLastComputed ==
    /\ (lastStep.kind = "mask" /\ NameOmitted(lastStep.entry))
       => lastStep.column = lastAdded
    /\ ~(/\ pc = "Failed"
         /\ lastAdded # AbsentName
         /\ i < Len(score_computations_of(workflow))
         /\ IsMasking(score_computations_of(workflow)[i + 1])
         /\ NameOmitted(score_computations_of(workflow)[i + 1]))

\* C8: the failure of a mask that names a column the matrix does not have
\* happens before anything was imported or computed.
C8_UnknownColumnFailsEarly ==
    (pc = "Failed" /\ err.type = "KeyError"
        /\ i < Len(score_computations_of(workflow))
        /\ IsMasking(score_computations_of(workflow)[i + 1]))
    => /\ spectrums_queries = NoCollection
       /\ spectrums_references = NoCollection
       /\ ~scores.some

\* C9: an extend step evaluates the measure at exactly the coordinates the
\* matrix had when the step started, stores the new column at those
\* coordinates, and leaves the coordinate set as it was.
C9_ExtendKeepsCoordinates ==
    lastStep.kind = "extend" =>
        /\ lastStep.evaluated = lastStep.before.coords
        /\ DOMAIN scores.data[ColumnIndex(scores, lastStep.column)]
               = lastStep.before.coords
        /\ scores.coords = lastStep.before.coords

\* C9 witness: an extend step on a matrix that holds some but not all pairs of
\* the grid
C9_Witness ==
    /\ lastStep.kind = "extend"
    /\ lastStep.before.coords # {}
    /\ lastStep.before.coords
           # Grid(spectrums_references.items, spectrums_queries.items)

\* C10: all columns of the matrix have the coordinate set of the matrix, and
\* every extend or mask step leaves a subset of the coordinates it started
\* with.
C10_SharedShrinkingCoordinates ==
    /\ scores.some =>
           \A k \in 1..Len(scores.data) : DOMAIN scores.data[k] = scores.coords
    /\ lastStep.kind \in {"extend", "mask"} =>
           scores.coords \subseteq lastStep.before.coords

\* C10 witness: a matrix of two columns that a mask has just made smaller
C10_Witness ==
    /\ lastStep.kind = "mask"
    /\ Len(scores.score_names) >= 2
    /\ scores.coords # lastStep.before.coords
    /\ scores.coords # {}

\* the columns of matrix b are columns of matrix a under the same names and in
\* the same order, and hold the same values except in the column named column
KeepsColumns(b, a, column) ==
    /\ Len(a.score_names) >= Len(b.score_names)
    /\ \A k \in 1..Len(b.score_names) :
           /\ a.score_names[k] = b.score_names[k]
           /\ b.score_names[k] # column => a.data[k] = b.data[k]

\* C11: in a run the measure at position 0, and no other entry, creates the
\* matrix from the full reference x query grid; a measure at a later position
\* is added to the matrix that exists, whose coordinates and other columns
\* stay as they were.
C11_OnlyFirstInitializes ==
    /\ (lastStep.kind # "none" /\ ~IsMasking(lastStep.entry))
       => lastStep.kind = (IF i = 1 THEN "initialize" ELSE "extend")
    /\ lastStep.kind = "initialize"
       => /\ i = 1
          /\ lastStep.evaluated
                 = Grid(spectrums_references.items, spectrums_queries.items)
          /\ scores.score_names = <<lastStep.column>>
    /\ lastStep.kind = "extend"
       => /\ i > 1
          /\ lastStep.before.some
          /\ scores.coords = lastStep.before.coords
          /\ KeepsColumns(lastStep.before, scores, lastStep.column)
          /\ HasColumn(scores, lastStep.column)

\* C11 witness: the measure at position 1 was added as a second column to the
\* matrix that the measure at position 0 created
C11_Witness ==
    /\ lastStep.kind = "extend"
    /\ i = 2
    /\ Len(lastStep.before.score_names) = 1
    /\ Len(scores.score_names) = 2

\* C12: in a run without a reference source the reference filters are never
\* applied, the query filters are applied once, and from the end of the
\* processing on the reference collection is the processed query collection
\* itself.
C12_SymmetricSinglePass ==
    (pc \in RunStages \cup {"Failed"} /\ reference_files.kind = "None") =>
        /\ pc # "ProcessingReferences"
        /\ thisRun.reference_passes = 0
        /\ thisRun.query_passes <= 1
        /\ pc \in {"ComputingScores", "Done"} =>
               /\ thisRun.query_passes = 1
               /\ spectrums_queries.obj = "queries_processed"
               /\ spectrums_references = spectrums_queries

\* C12 witness: a finished run without a reference source, with filters in
\* both lists, whose query filters removed a spectrum
C12_Witness ==
    /\ pc = "Done"
    /\ reference_files.kind = "None"
    /\ processing_references.processing_steps # <<>>
    /\ spectrums_queries.items # LoadAll(query_files.files)
    /\ spectrums_references.obj = "queries_processed"

\* C13: a run goes from Importing to ProcessingQueries, then to
\* ProcessingReferences unless the pipeline is symmetric, then to
\* ComputingScores and to Done; the score computations are executed one after
\* the other in list order, each on the matrix the previous one left, and the
\* run is done only when all of them were executed.
C13_StagesInOrder ==
    [][/\ pc' = "Importing" => pc \in {"Idle", "Done", "Failed", "Importing"}
       /\ pc = "Importing" => pc' \in {"Importing", "ProcessingQueries", "Failed"}
       /\ (pc = "ProcessingQueries" /\ pc' # pc) =>
              /\ pc' = (IF is_symmetric THEN "ComputingScores"
                                        ELSE "ProcessingReferences")
              /\ thisRun'.query_passes = 1
       /\ (pc = "ProcessingReferences" /\ pc' # pc) =>
              /\ pc' = "ComputingScores"
              /\ thisRun'.reference_passes = 1
       /\ (pc # "ComputingScores" /\ pc' = "ComputingScores") =>
              /\ pc \in {"ProcessingQueries", "ProcessingReferences"}
              /\ i' = 0
       /\ pc = "ComputingScores" => pc' \in {"ComputingScores", "Done", "Failed"}
       /\ (pc = "ComputingScores" /\ pc' = "ComputingScores"
              /\ <<i, scores, lastStep>> # <<i', scores', lastStep'>>) =>
              /\ i' = i + 1
              /\ lastStep'.entry = score_computations_of(workflow)[i + 1]
              /\ lastStep'.before = scores
       /\ (pc # "Done" /\ pc' = "Done") =>
              /\ pc = "ComputingScores"
              /\ i = Len(score_computations_of(workflow))
              /\ scores' = scores]_vars

\* C13 witness: a finished run of a pipeline that is not symmetric, which
\* made a pass over the references and executed two score computations
C13_Witness ==
    /\ pc = "Done"
    /\ ~is_symmetric
    /\ thisRun.query_passes = 1
    /\ thisRun.reference_passes = 1
    /\ i >= 2

\* C14: after a run that failed, the scores attribute holds what it held when
\* the run started, and so no matrix built by the steps of the failed run.
C14_FailedRunLeavesNoMatrix ==
    pc = "Failed" => scores = thisRun.scores

\* the files a call names that do not exist
MissingNamed(q, r) ==
    {f \in {q.files[k] : k \in 1..Len(q.files)}
             \cup {r.files[k] : k \in 1..Len(r.files)} : f \notin ExistingFiles}

\* C15: a run that names a file that does not exist fails in import_spectrums
\* with no file loaded, the existing files before the missing one included,
\* and with the two collections and is_symmetric as they were at the call.
C15_MissingFileLoadsNothing ==
    (pc \in (RunStages \cup {"Failed"}) \ {"Importing"}
        /\ MissingNamed(query_files, reference_files) # {})
    => /\ pc = "Failed"
       /\ err.type = "AssertionError"
       /\ err.arg \in MissingNamed(query_files, reference_files)
       /\ thisRun.loaded = <<>>
       /\ thisRun.query_passes = 0
       /\ spectrums_queries = thisRun.queries
       /\ spectrums_references = thisRun.references
       /\ is_symmetric = thisRun.is_symmetric

\* C15 witness: a second run failed on a list whose first file exists and
\* whose second does not, after a run that had loaded both collections
C15_Witness ==
    /\ pc = "Failed"
    /\ err.type = "AssertionError"
    /\ Len(reference_files.files) = 2
    /\ reference_files.files[1] \in ExistingFiles
    /\ reference_files.files[2] \notin ExistingFiles
    /\ thisRun.queries # NoCollection
    /\ spectrums_references # spectrums_queries

\* C16: when import_spectrums has returned, the queries are the spectra of the
\* query files in the given order; is_symmetric is set and the references are
\* the query collection itself exactly when no reference files were given, and
\* otherwise the references are the spectra of the reference files in the
\* given order.
C16_ImportConcatenates ==
    pc = "ProcessingQueries" =>
        /\ spectrums_queries.items = LoadAll(query_files.files)
        /\ is_symmetric <=> reference_files.kind = "None"
        /\ (spectrums_references = spectrums_queries)
               <=> reference_files.kind = "None"
        /\ reference_files.kind # "None" =>
               spectrums_references.items = LoadAll(reference_files.files)

\* C17: an assignment of a filter list to reference_filters replaces the
\* reference filters of the workflow: right after it the getter returns the
\* assigned list and the reference processor is the one built from it.
C17_ReferenceSetterReplaces ==
    lastSet.key = "reference_filters" =>
        /\ reference_filters_getter(workflow) = lastSet.value
        /\ processing_references.processing_steps
               = initialize_spectrum_processor("None", lastSet.value)

\* C18: the workflow of a constructed Pipeline has exactly the keys
\* query_filters, reference_filters and score_computations, whatever has
\* been assigned to the three properties.
C18_WorkflowKeepsThreeKeys ==
    pc \notin {"NotConstructed", "CtorFailed"} => workflow.keys = expected_keys

PassedToAddFilter(additional_filters) ==
    [k \in 1..Len(additional_filters) |->
        IF additional_filters[k].shape = "list1"
        THEN Step("bare", additional_filters[k].name, additional_filters[k].max_mz)
        ELSE additional_filters[k]]

IsPrefix(p, s) == Len(p) <= Len(s) /\ SubSeq(s, 1, Len(p)) = p

C21_YamlRoundTrip ==
    yaml_file.loaded =>
        LET created == create_workflow(createArgs.predefined_processing_queries,
                                       createArgs.predefined_processing_reference,
                                       createArgs.additional_filters_queries,
                                       createArgs.additional_filters_references,
                                       createArgs.score_computations)
        IN /\ wf.some
           /\ wf.order = created.wf.order
           /\ heap[wf.query_filters] = created.heap[created.wf.query_filters]
           /\ heap[wf.reference_filters]
                  = created.heap[created.wf.reference_filters]
           /\ wf.score_computations = created.wf.score_computations

\* the score computations of a run from position k on, as one function of the
\* matrix and the two collections
RECURSIVE FoldSteps(_, _, _, _, _)
FoldSteps(sc, k, matrix, references, queries) ==
    IF k = Len(sc)
    THEN [scores |-> matrix, err |-> NoError, trace |-> <<Visit("Done", 0)>>]
    ELSE LET r == Dispatch(matrix, sc[k + 1], k, references, queries)
         IN IF r.err # NoError
            THEN [scores |-> matrix, err |-> r.err,
                  trace |-> <<Visit("ComputingScores", k + 1)>>]
            ELSE LET rest == FoldSteps(sc, k + 1, r.scores, references, queries)
                 IN [rest EXCEPT !.trace = <<Visit("ComputingScores", k + 1)>> \o @]

\* where a run of workflow w on the files q and r ends, as a function of w, q,
\* r and the state the run started from, and of nothing else
ExpectedRun(w, q, r, start) ==
    IF ImportCheck(q, r) # NoError
    THEN [pc |-> "Failed", err |-> ImportCheck(q, r), queries |-> start.queries,
          references |-> start.references, scores |-> start.scores,
          trace |-> <<Visit("Importing", 0)>>]
    ELSE LET sym == start.is_symmetric \/ r.kind = "None"
             qs  == Collection("queries_processed",
                        process_spectrums(
                            initialize_spectrum_processor("None", w.query_filters),
                            LoadAll(q.files)))
             rs  == IF sym THEN qs
                    ELSE Collection("references_processed",
                             process_spectrums(
                                 initialize_spectrum_processor("None",
                                                               w.reference_filters),
                                 LoadAll(r.files)))
             f   == FoldSteps(score_computations_of(w), 0, start.scores,
                              rs.items, qs.items)
         IN [pc |-> IF f.err = NoError THEN "Done" ELSE "Failed",
             err |-> f.err, queries |-> qs, references |-> rs,
             scores |-> f.scores,
             trace |-> <<Visit("Importing", 0), Visit("ProcessingQueries", 0)>>
                       \o (IF sym THEN <<>> ELSE <<Visit("ProcessingReferences", 0)>>)
                       \o f.trace]

\* where the run has ended
RunOutcome ==
    [pc |-> pc, err |-> err, queries |-> spectrums_queries,
     references |-> spectrums_references, scores |-> scores,
     trace |-> thisRun.trace]

\* C22: a run ends in the stage and step sequence, the collections and the
\* matrix that the workflow, the files and the state at the start of the run
\* determine, with or without a logging file; every step leaves the lines of
\* the log in place and adds lines only at its end, and adds none when no
\* logging file is set.
C22_LogDoesNotInfluence ==
    [][/\ IsPrefix(log, log')
       /\ logging_file' = NoLogFile => log' = log
       /\ pc # "NotConstructed" => logging_file' = logging_file
       /\ pc' \in {"Done", "Failed"} =>
              RunOutcome' = ExpectedRun(workflow', query_files', reference_files',
                                        thisRun')]_vars

\* C22 witness: a finished run of three score computations with a logging
\* file, whose log holds the lines of the run
C22_Witness ==
    /\ pc = "Done"
    /\ logging_file # NoLogFile
    /\ i = 3
    /\ Len(log) > 10
    /\ scores.some

RetentionFilters == {"add_retention_time", "add_retention_index"}

\* C23: add_retention_time and add_retention_index, called on a spectrum that
\* is not None, raise nothing and return a spectrum, whatever is stored under
\* the accepted retention keys.
C23_RetentionNeverRaises ==
    call.name \in RetentionFilters /\ call.in # 0 =>
        /\ call.err = NoError
        /\ call.out # 0

\* C24: a filter called with None returns None and raises nothing, so once
\* the chain has arrived at None every later filter leaves it at None.
C24_NoneIsAbsorbing ==
    [][cur = 0 /\ calls' = calls + 1 =>
           /\ call'.in = 0
           /\ call'.out = 0
           /\ call'.err = NoError
           /\ cur' = 0]_vars

\* C24 witness: the second filter of a chain, make_charge_int, was given the
\* None that the first filter, a rejection, had produced
C24_Witness ==
    /\ calls = 2
    /\ call.name = "make_charge_int"
    /\ call.in = 0
    /\ call.out = 0
    /\ Len(objs) = 1

C27_RejectionIsAValue ==
    call.in # 0 =>
        /\ call.name = "require_precursor_below_mz" =>
               /\ call.err = NoError
               /\ call.out = 0 <=>
                      get(call.before, 1, "precursor_mz").num > call.max_mz
        /\ call.name = "reduce_to_number_of_peaks" =>
               /\ call.err = NoError
               /\ call.out = 0 <=> call.before[1].peaks < call.n_required

\* the peak lines the format "mz<TAB>intensity<TAB>comment" allows for a peak
TabSeparated(peak, peak_comments) ==
    LET comment == format_peak_comment(peak.mz, peak_comments)
    IN {format(peak.mz) \o "\t" \o format(peak.intensity) \o "\t" \o comment}
       \cup (IF comment = "" THEN {format(peak.mz) \o "\t" \o format(peak.intensity)}
             ELSE {})

\* for each line of the record of a spectrum, the texts the record format
\* allows there
RecordLines(spectrum) ==
    LET kept == SelectSeq(spectrum.metadata,
                          LAMBDA entry : ~startswith(lower(entry.key),
                                                     <<"n", "u", "m", " ", "p", "e",
                                                       "a", "k", "s">>))
    IN [k \in 1..Len(kept) |->
           {Text(upper(kept[k].key)) \o ": " \o format(kept[k].value)}]
       \o <<{"NUM PEAKS: " \o ToString(Len(spectrum.peaks))}>>
       \o [k \in 1..Len(spectrum.peaks) |->
              TabSeparated(spectrum.peaks[k], spectrum.peak_comments)]
       \o <<{""}>>

RECURSIVE FileLines(_)
FileLines(list) ==
    IF list = <<>> THEN <<>> ELSE RecordLines(list[1]) \o FileLines(Tail(list))

\* C26: the file save_as_msp has written holds, for each spectrum of the input
\* in order (one Spectrum being a list of one), the "KEY: value" lines of the
\* metadata without the keys that start with "num peaks", the line
\* "NUM PEAKS: n", n peak lines of mz, intensity and quoted comment separated
\* by tab characters, and an empty line.
C26_MspRecords ==
    saved.done /\ saved.err = NoError =>
        LET allowed == FileLines(IF spectra.is_list THEN spectra.items
                                 ELSE <<spectra.items[1]>>)
        IN /\ outfile.exists
           /\ Len(outfile.lines) = Len(allowed)
           /\ \A k \in 1..Len(allowed) : outfile.lines[k] \in allowed[k]

\* C28: a run that has finished made a pass of the reference filters of its
\* own exactly when it was given reference files, the flag is_symmetric is
\* set exactly when it was given none, and with reference files its reference
\* collection holds spectra of those files only.
C28_SymmetryFollowsRun ==
    pc = "Done" =>
        /\ thisRun.reference_passes = 1 <=> reference_files.kind # "None"
        /\ is_symmetric <=> reference_files.kind = "None"
        /\ reference_files.kind # "None" =>
               \A k \in 1..Len(spectrums_references.items) :
                   \E n \in 1..Len(LoadAll(reference_files.files)) :
                       spectrums_references.items[k] = LoadAll(reference_files.files)[n]

\* C29: every step of a constructed Pipeline leaves a stored
\* score_computations that check_score_computation accepts, and an assignment
\* to score_computations that raises leaves the stored list as it was.
C29_RejectedAssignmentKeepsList ==
    [][/\ pc' \notin {"NotConstructed", "CtorFailed"} =>
              check_score_computation(workflow'.score_computations) = NoError
       /\ (/\ lastSet'.n > lastSet.n
           /\ lastSet'.key = "score_computations"
           /\ lastSet'.err # NoError) =>
              workflow'.score_computations = workflow.score_computations]_vars

\* C30: the first score computation a run completes computes a new matrix,
\* so that no mask and no extension works on the matrix an earlier run left,
\* and the matrix held when a run has finished is the one its score
\* computations give from no matrix and the collections of the run.
C30_MatrixOfThisRunOnly ==
    [][/\ (i = 0 /\ i' = 1) => lastStep'.kind = "initialize"
       /\ (pc # "Done" /\ pc' = "Done") =>
              scores' = FoldSteps(score_computations_of(workflow'), 0, NoScores,
                                  spectrums_references'.items,
                                  spectrums_queries'.items).scores]_vars

\* the errors of a lookup that fails: the KeyError of the registry of
\* measures for the head of the entry, and the TypeError of a head that is
\* neither a name nor a callable
LookupFailure(e, computation) ==
    \/ /\ ~IsMasking(computation)
       /\ e = Error("KeyError", HeadOf(computation).val)
    \/ e = Error("TypeError", "Unknown similarity measure.")

\* C31: every stored entry that check_score_computation accepts is a masking
\* entry or resolves to a measure, not both; a step that has completed was a
\* masking step exactly for a masking entry; and a run of the score
\* computations given at construction that failed at an accepted entry did
\* not fail with a lookup failure.
C31_ValidationAndDispatchAgree ==
    LET sc == score_computations_of(workflow)
    IN /\ \A k \in 1..Len(sc) :
              check_score_computation(<<sc[k]>>) = NoError =>
                  IsMasking(sc[k]) # (get_similarity_measure(sc[k]).err = NoError)
       /\ lastStep.kind # "none" =>
              ((lastStep.kind = "mask") <=> IsMasking(lastStep.entry))
       /\ (/\ pc = "Failed"
           /\ lastSet.n = 0
           /\ i < Len(sc)
           /\ thisRun.trace # <<>>
           /\ Last(thisRun.trace) = Visit("ComputingScores", i + 1)
           /\ check_score_computation(<<sc[i + 1]>>) = NoError) =>
              ~LookupFailure(err, sc[i + 1])

\* C31 witness: a run has completed a callable measure, a measure given as a
\* bare name and a mask
C31_Witness ==
    /\ pc = "Done"
    /\ score_computations_of(workflow) = <<Spec2VecEntry, CosineEntry, MaskLow>>
    /\ lastStep.kind = "mask"
    /\ scores.some

\* the non-negative number a value converts to, as a set: empty when the
\* value is None, converts to no number or converts to a negative one
NonNegativeNumber(value) ==
    LET v == IF value.kind = "list" /\ Len(value.items) = 1
             THEN value.items[1] ELSE value
    IN IF v.kind \in {"int", "float", "str"} /\ py_float(v).err = NoError
          /\ py_float(v).num >= 0
       THEN {FloatV(py_float(v).num)} ELSE {}

\* the first value, in the order of the accepted keys, that converts to a
\* non-negative number, and None when there is none
FirstNonNegative(spectrum, accepted_keys) ==
    LET usable == {k \in 1..Len(accepted_keys) :
                      /\ accepted_keys[k] \in DOMAIN spectrum.metadata
                      /\ NonNegativeNumber(spectrum.metadata[accepted_keys[k]]) # {}}
    IN IF usable = {} THEN NoneV
       ELSE LET k == CHOOSE j \in usable : \A m \in usable : j <= m
            IN CHOOSE n \in NonNegativeNumber(spectrum.metadata[accepted_keys[k]]) : TRUE

\* add_retention_time, when it returns: what it stores is that value
C32_WhenReturned ==
    (call.name = "add_retention_time" /\ call.in # 0 /\ call.err = NoError) =>
        /\ call.out # 0
        /\ objs[call.out].metadata.retention_time
               = FirstNonNegative(call.before[1], _retention_time_keys)

\* C32: add_retention_time, called on a spectrum that is not None, returns a
\* spectrum whose retention_time is the first value, in the order of the
\* accepted keys, that converts to a non-negative number, and None when no
\* accepted key holds such a value.
C32_FirstNonNegativeStored ==
    (call.name = "add_retention_time" /\ call.in # 0) =>
        /\ call.err = NoError
        /\ call.out # 0
        /\ objs[call.out].metadata.retention_time
               = FirstNonNegative(call.before[1], _retention_time_keys)

\* the integer a charge converts to, as a set: the integer itself, the
\* integer a string or the first element of a list stands for, and nothing
\* for any other charge
ChargeAsInteger(charge) ==
    LET v == IF charge.kind = "list" /\ charge.items # <<>>
             THEN charge.items[1] ELSE charge
    IN IF v.kind \in {"int", "str"} /\ py_int(v).err = NoError
       THEN {IntV(py_int(v).num)} ELSE {}

\* C33: make_charge_int, called on a spectrum that is not None, raises nothing
\* and returns a spectrum; its charge is the integer the charge of the input
\* converts to, and with a charge that is present and converts to none, the
\* charge of the input with a warning emitted.
C33_ChargeNeverRaises ==
    (call.name = "make_charge_int" /\ call.in # 0) =>
        LET charge == call.before[1].metadata.charge
        IN /\ call.err = NoError
           /\ call.out # 0
           /\ ChargeAsInteger(charge) # {} =>
                  objs[call.out].metadata.charge \in ChargeAsInteger(charge)
           /\ (ChargeAsInteger(charge) = {} /\ charge # Absent) =>
                  /\ objs[call.out].metadata.charge = charge
                  /\ call.warned

\* C34: a call of save_as_msp with a file name that does not end in ".msp"
\* raises the AssertionError and leaves the file system as it was: a file of
\* that name is not created, and one that exists keeps its lines.
C34_BadNameWritesNothing ==
    [][(~saved.done /\ saved'.done /\ ~endswith(filename, <<".", "m", "s", "p">>)) =>
           /\ saved'.err = Error("AssertionError", "File extension must be 'msp'.")
           /\ outfile' = outfile]_vars

\* C34 witness: save_as_msp was called with spectra to write and the name
\* t.txt, under which a file exists, and has raised
C34_Witness ==
    /\ saved.done
    /\ saved.err # NoError
    /\ filename = <<"t", ".", "t", "x", "t">>
    /\ spectra.items # <<>>
    /\ outfile.exists
    /\ outfile.lines # <<>>

====
